---- MODULE Spec2Model ----
(***************************************************************************)
(* Model of motion-canvas-cache: the browser-side Cache singleton          *)
(* (Cache.ts), its key derivation (CacheUtils.ts) and the dev-server       *)
(* plugin that answers its HMR signals (vite-plugin/plugin.ts).            *)
(*                                                                         *)
(* One step of the model is one macrotask of the single-threaded event     *)
(* loop together with the promise continuations (microtasks) it triggers:  *)
(* a user call, a timer callback, an HMR message handler, a network        *)
(* response, or a FileReader/arrayBuffer completion.  The HMR socket is    *)
(* first-in first-out and only the plugin touches its directory, so the    *)
(* plugin's handler runs in the step that sends it the message and its     *)
(* reply waits in toClient until the client handles it.  The plugin's      *)
(* handlers are taken apart, one step per await and the directory file by  *)
(* file, in the variable plugin and the specification PluginSpec.          *)
(* Strings are sequences of UTF-16 code units.                             *)
(***************************************************************************)
EXTENDS Integers, Sequences, FiniteSets, TLC

(* ------------------------------ bounds -------------------------------- *)
\* number of asynchronous calls (cache() / checkServerCache()) in one run
MaxCalls == 2
\* number of direct cacheBlob()/cacheArrayBuffer() calls in one run
MaxStores == 1
\* number of direct stores in one run of the Memory Table's own operations
MaxResults == 2
\* number of '/__cache-cleanup' requests in one run
MaxCleanups == 1
\* number of signals the plugin receives in one run of the plugin alone
MaxSignals == 2

(* --------------------------- CacheUtils ------------------------------- *)
\* 2^16: a 32-bit integer is kept as the pair <<high half, low half>>
Half == 65536

RECURSIVE joinNoSeparator(_, _)
\* a join that leaves the separator out
joinNoSeparator(opts, sep) ==
  IF Len(opts) = 0 THEN <<>> ELSE opts[1] \o joinNoSeparator(Tail(opts), sep)

RECURSIVE join(_, _)
\* Array.prototype.join: the elements separated by sep
join(opts, sep) ==
  IF Len(opts) = 0 THEN <<>>
  ELSE IF Len(opts) = 1 THEN opts[1]
  ELSE opts[1] \o sep \o join(Tail(opts), sep)

\* hash << 5 on a 32-bit integer
Shl5(h) ==
  LET lo32 == h[2] * 32
  IN  << (h[1] * 32 + (lo32 \div Half)) % Half, lo32 % Half >>

\* a - b, reduced to 32 bits
Sub32(a, b) ==
  LET lo == a[2] - b[2]
      borrow == IF lo < 0 THEN 1 ELSE 0
  IN  << (a[1] - b[1] - borrow + 2 * Half) % Half, (lo + Half) % Half >>

\* a + n for a code unit n, reduced to 32 bits (hash & hash)
Add32(a, n) ==
  LET lo == a[2] + n
  IN  << (a[1] + (lo \div Half)) % Half, lo % Half >>

\* a loop body that leaves out the subtraction: hash = (hash << 5) + char
HashStepTimes32(h, char) == Add32(Shl5(h), char)

\* one round of the loop body: hash = (hash << 5) - hash + char; hash & hash
HashStep(h, char) == Add32(Sub32(Shl5(h), h), char)

RECURSIVE HashLoop(_, _)
HashLoop(h, str) ==
  IF Len(str) = 0 THEN h ELSE HashLoop(HashStep(h, Head(str)), Tail(str))

\* Math.abs of the signed 32-bit value, as an unsigned pair
Abs32(h) ==
  IF h[1] < Half \div 2 THEN h
  ELSE << (Half - 1 - h[1] + (IF h[2] = 0 THEN 1 ELSE 0)) % Half,
          (Half - h[2]) % Half >>

\* code unit of one lowercase hexadecimal digit
HexChar(d) == IF d < 10 THEN 48 + d ELSE 87 + d

\* the four hexadecimal digits of a 16-bit half
HexDigits4(n) ==
  << HexChar(n \div 4096), HexChar((n \div 256) % 16),
     HexChar((n \div 16) % 16), HexChar(n % 16) >>

RECURSIVE StripZeros(_)
\* Number.prototype.toString(16) prints no leading zero (but "0" for zero)
StripZeros(s) ==
  IF Len(s) > 1 /\ Head(s) = 48 THEN StripZeros(Tail(s)) ELSE s

toString16(h) == StripZeros(HexDigits4(h[1]) \o HexDigits4(h[2]))

\* a padStart that leaves the string as it is
padStartNothing(s, n, fill) == s

RECURSIVE padStart(_, _, _)
padStart(s, n, fill) ==
  IF Len(s) >= n THEN s ELSE padStart(<<fill>> \o s, n, fill)

slice08(s) == IF Len(s) <= 8 THEN s ELSE SubSeq(s, 1, 8)

simpleHash(str) ==
  slice08(padStart(toString16(Abs32(HashLoop(<<0, 0>>, str))), 8, 48))

generateCacheKey(content, opts) ==
  simpleHash(content \o <<45>> \o join(opts, <<45>>))

(* ------------------------------ inputs -------------------------------- *)
\* an input of cache() / cached(): a string, or a URL object whose
\* serialization (href) is text
StringInput(s) == [kind |-> "string", text |-> s]
UrlInput(href) == [kind |-> "URL", text |-> href]
\* the input of a call that takes none
NoInput == StringInput(<<>>)

\* URL.prototype.toString(): the href of the URL object
toString(url) == url.text

\* a conversion that takes a URL object for the empty string
urlStringOfStrings(input) ==
  IF input.kind = "URL" THEN <<>> ELSE input.text

\* input instanceof URL ? input.toString() : input
urlString(input) ==
  IF input.kind = "URL" THEN toString(input) ELSE input.text

\* an || that always takes its second operand
OrElseSecond(a, b) == b

\* an || that takes its first operand unless it is undefined or null
\* (the ?? of JavaScript)
OrElseNullish(a, b) == IF a \in {"undefined", "null"} THEN b ELSE a

\* a || b of JavaScript on strings: undefined, null and '' are falsy
OrElse(a, b) == IF a \in {"undefined", "null", ""} THEN b ELSE a

\* the inputs passed to cache() and cached(): the string "a"
Urls == { StringInput(<<97>>) }
\* those and the URL object whose href is "a"
Inputs == Urls \cup { UrlInput(<<97>>) }
\* options.mimeType of cache(): absent
Mimes == { "undefined" }
\* options.mimeType of cache(): absent or an override
MimeOverrides == Mimes \cup { "audio/mpeg" }
\* response.headers.get('content-type'): none
ContentTypes == { "null" }
\* response.headers.get('content-type'): none or a declared type
DeclaredTypes == ContentTypes \cup { "text/plain" }
\* blob.type of the blob passed to cacheBlob: '' (the blob has no type)
BlobTypes == { "" }
\* blob.type: none or a type
TypedBlobs == BlobTypes \cup { "image/gif" }
\* options.mimeType: absent, the empty string, or an override
MimeValues == MimeOverrides \cup { "" }
\* response.headers.get('content-type'): none, empty, or a declared type
HeaderValues == DeclaredTypes \cup { "" }
\* the MIME type used when none is given
DefaultMime == "application/octet-stream"
\* mimeType in the metadata file of a file stored in an earlier session
EarlierMime == "image/png"
\* options.cacheKey, an optional string kept as a sequence of at most one
\* string: absent or "k"
CacheKeyOpts == { <<>>, << <<107>> >> }
\* options.cacheKey of the calls that pass options.cacheKeyOptions: those
\* and the empty string
OptionKeyOpts == CacheKeyOpts \cup { << <<>> >> }
\* options.metadata of cacheBlob / cacheArrayBuffer: absent or some object
Metas == { "undefined", "m1" }
\* options.metadata of cache()
CallMetas == { "undefined" }
\* the keys passed to cacheBlob / cacheArrayBuffer / checkServerCache
StoreKeys == { <<107>> }
\* options.cacheKeyOptions of cache(): absent (or []) or ["x"]
KeyOptions == { <<>>, << <<120>> >> }
\* options.cacheKeyOptions of cached(): those and ["y"]
QueryKeyOptions == KeyOptions \cup { << <<121>> >> }
\* the content arguments of the generateCacheKey calls of a run of the key
\* deriver alone: "a", "", and three strings of five CJK characters whose
\* hashes with no options are 0, -2^31 and -1
Contents ==
  { <<97>>, <<>>, <<34123, 38456, 38579, 35855, 34678>>,
    <<36639, 32848, 29565, 24224, 30433>>,
    <<26230, 32258, 30652, 37699, 35297>> }
\* their opts arguments: [], [""], ["x"], ["a","b"], ["b","a"], ["a-b"],
\* ["ab"]
OptionSeqs ==
  { <<>>, << <<>> >>, << <<120>> >>, << <<97>>, <<98>> >>,
    << <<98>>, <<97>> >>, << <<97, 45, 98>> >>, << <<97, 98>> >> }
KeyArgs == [content : Contents, opts : OptionSeqs]
\* response.status of the network retrieval
Statuses == { 200, 404 }
AllKeys == StoreKeys \cup { ck[1] : ck \in CacheKeyOpts \ {<<>>} }
             \cup { generateCacheKey(urlString(u), <<>>) : u \in Urls }
\* the keys of cache() calls that pass options.cacheKeyOptions
OptionKeys ==
  AllKeys \cup { generateCacheKey(urlString(u), t) : u \in Urls, t \in KeyOptions }
\* the keys of cache() calls on the string and the URL object
InputKeys == { generateCacheKey(urlString(i), <<>>) : i \in Inputs }

(* ----------------------------- locations ------------------------------ *)
NullLoc == [kind |-> "null", key |-> <<>>, id |-> 0]
\* URL.createObjectURL: a fresh blob URL per call
BlobUrl(n) == [kind |-> "blob", key |-> <<>>, id |-> n]
\* '/' + path.join(cachePath, fileName) of the plugin
FilePath(k) == [kind |-> "file", key |-> k, id |-> 0]
\* a location the caller of cacheResult supplies
UserUrl(n) == [kind |-> "user", key |-> <<>>, id |-> n]
\* the url arguments of cacheResult
ResultUrls == { UserUrl(1), UserUrl(2) }

\* the metadata of a row as stored by the client: options.metadata, which
\* holds no mimeType
ClientMeta(m) == [user |-> m, server |-> FALSE, mime |-> "none"]
\* metadataContent of the plugin: its own fields, mimeType among them,
\* merged with metadata || {}
ServerMeta(m, mime) ==
  [user |-> IF m = "undefined" THEN "{}" ELSE m, server |-> TRUE,
   mime |-> mime]

NoEvent == [type |-> "none", id |-> 0, key |-> <<>>, url |-> NullLoc,
            meta |-> ClientMeta("undefined")]

(* ------------------------------- state -------------------------------- *)
VARIABLES
  hot,              \* import.meta.hot exists (dev server with HMR)
  instance,         \* Cache.instance # null
  avail,            \* serverAvailablePromise: "null" | "unknown" | "yes" | "no"
  probeTimer,       \* the 500 ms timer: "none" | "armed" | "fired" | "cleared"
  probeWaiters,     \* reactions waiting on serverAvailablePromise, in order
  cache,            \* Cache.cache: key -> [url, metadata]
  pendingRequests,  \* Cache.pendingRequests: key -> call owning {resolve, reject}
  calls,            \* the asynchronous calls started so far
  timerQueue,       \* the armed 1000 ms lookup timers, in firing order
  uploads,          \* the uploadToServer tasks started so far
  toClient,         \* HMR messages sent by the plugin, not yet handled
  files,            \* the plugin's cache directory: key -> metadata file content
  sent,             \* number of signals sent so far, per kind
  nextBlob,         \* number of blob URLs created so far
  stores,           \* number of direct cacheBlob/cacheArrayBuffer calls so far
  ev,               \* what the last step returned to its caller
  keyCalls,         \* generateCacheKey called on its own: arguments and keys
  cleanup,          \* the plugin's '/__cache-cleanup' request, see NoCleanup
  plugin            \* the plugin with its directory file by file, see NoPlugin

vars == << hot, instance, avail, probeTimer, probeWaiters, cache,
           pendingRequests, calls, timerQueue, uploads, toClient,
           files, sent, nextBlob, stores, ev, keyCalls, cleanup, plugin >>

\* the state of the Cache singleton, its calls and the plugin
cacheVars == << hot, instance, avail, probeTimer, probeWaiters, cache,
                pendingRequests, calls, timerQueue, uploads, toClient,
                files, sent, nextBlob, stores, ev, cleanup, plugin >>

\* the part of the client state that promise continuations change
ClientState ==
  [calls |-> calls, pendingRequests |-> pendingRequests,
   toClient |-> toClient, files |-> files, timerQueue |-> timerQueue,
   uploads |-> uploads, sent |-> sent, probeWaiters |-> probeWaiters]

EmptyMap == [k \in {} |-> NullLoc]

Put(map, k, v) == [x \in DOMAIN map \cup {k} |-> IF x = k THEN v ELSE map[x]]
Remove(map, k) == [x \in DOMAIN map \ {k} |-> map[x]]

\* no cleanup request so far (running: a request is being served; todo:
\* the keys whose files it listed and has not unlinked yet; done: requests
\* answered 'Cache cleared'; atStart, atEnd: the upload signals sent when
\* the last request listed the directory and when it answered)
NoCleanup ==
  [running |-> FALSE, todo |-> {}, done |-> 0, atStart |-> 0, atEnd |-> 0]

\* the plugin taken one await at a time, before its first signal (maxFileSize:
\* the option, in megabytes; dir: the files of cachePath by name; handlers:
\* the signals received so far and how far each handler has come; replies:
\* the answers sent so far; listed: the files a cleanup request has still
\* to unlink; cleaning: a cleanup request is being served; resets: cleanup
\* requests so far)
NoPlugin ==
  [maxFileSize |-> 50, dir |-> EmptyMap, handlers |-> <<>>,
   replies |-> <<>>, listed |-> {}, cleaning |-> FALSE, resets |-> 0]

\* the start of the process, with some of the given keys stored by the
\* plugin in an earlier session
InitWith(keys) ==
  /\ hot \in BOOLEAN
  /\ instance = FALSE
  /\ avail = "null"
  /\ probeTimer = "none"
  /\ probeWaiters = <<>>
  /\ cache = EmptyMap
  /\ pendingRequests = EmptyMap
  /\ calls = <<>>
  /\ timerQueue = <<>>
  /\ uploads = <<>>
  /\ toClient = <<>>
  /\ \E S \in SUBSET keys :
       /\ (~hot => S = {})
       /\ files = [k \in S |-> ServerMeta("undefined", EarlierMime)]
  /\ sent = [avail |-> 0, lookup |-> 0, upload |-> 0]
  /\ nextBlob = 0
  /\ stores = 0
  /\ ev = NoEvent
  /\ cleanup = NoCleanup

NoKeyCalls == [args |-> <<>>, keys |-> <<>>]

Init == InitWith(AllKeys) /\ keyCalls = NoKeyCalls /\ plugin = NoPlugin

(* ------------------------------ plugin -------------------------------- *)
NoMeta == ClientMeta("undefined")

\* an HMR message, or the value or error a pending request is settled with
Msg(t, k, u, m) ==
  [type |-> t, key |-> k, url |-> u, meta |-> m, error |-> "none"]

\* a message or rejection that carries the text of an error
ErrorMsg(t, k, e) == [Msg(t, k, NullLoc, NoMeta) EXCEPT !.error = e]

\* server.ws.on('cache:check-available')
PluginCheckAvailable(dir) ==
  [reply |-> Msg("cache:available", <<>>, NullLoc, NoMeta), files |-> dir]

\* server.ws.on('cache:check-file'): found when the metadata file and the
\* content file it names exist
PluginCheckFile(dir, k) ==
  [reply |-> IF k \in DOMAIN dir
               THEN Msg("cache:file-exists", k, FilePath(k), dir[k])
               ELSE Msg("cache:file-not-found", k, NullLoc, NoMeta),
   files |-> dir]

\* server.ws.on('cache:upload-file'): the file is too large or a write
\* throws (accepted = FALSE), or both files are written
PluginUploadFile(dir, k, m, mime, accepted) ==
  IF accepted
    THEN [reply |-> Msg("cache:upload-success", k, FilePath(k),
                        ServerMeta(m, mime)),
          files |-> Put(dir, k, ServerMeta(m, mime))]
    ELSE [reply |-> ErrorMsg("cache:upload-error", k, "File too large"),
          files |-> dir]

\* import.meta.hot.send(...): the plugin's answer is queued for the client
Send(st, kind, answer) ==
  [st EXCEPT !.toClient = Append(@, answer.reply),
             !.files = answer.files,
             !.sent[kind] = @ + 1]

(* --------------------- promise continuations -------------------------- *)
\* a call: its arguments, where it is suspended (pc), what it returned, and
\* what it has done so far (hit: the memory check at its start found a row;
\* out: the value its lookup future took; nSettle: how often the future's
\* resolve or reject was invoked; err: the status in the message of the
\* error it threw after its network retrieval; rejected: the message of the
\* error its lookup was rejected with; pred: see Predecessor; url: the
\* urlString it passes to fetch; mime: options.mimeType; mimeType: the MIME
\* type it passed to cacheArrayBuffer)
NewCall(op, input, ck, t, k, m, mime, p) ==
  [op |-> op, input |-> input, url |-> urlString(input), ckey |-> ck,
   opts |-> t, key |-> k, meta |-> m, mime |-> mime, mimeType |-> "none",
   pc |-> "start", result |-> NullLoc, path |-> "none", hit |-> FALSE,
   out |-> "none", nFetch |-> 0, nLookup |-> 0, nSettle |-> 0, err |-> 0,
   rejected |-> "none", pred |-> p]

SetCall(st, c, r) == [st EXCEPT !.calls[c] = r]

\* cacheUrl: fetch(urlString) is issued and awaited
IssueFetch(st, c) ==
  SetCall(st, c, [st.calls[c] EXCEPT !.pc = "fetch", !.nFetch = @ + 1])

\* a cacheUrl that goes on to the network also when the lookup found the key
AfterLookupAlwaysFetches(st, c, out) ==
  LET r == st.calls[c] IN
  IF out.type = "error"
    THEN SetCall(st, c, [r EXCEPT !.pc = "failed", !.rejected = out.error])
  ELSE IF r.op = "cache"
    THEN IssueFetch(st, c)
  ELSE SetCall(st, c, [r EXCEPT !.pc = "done", !.result = out.url])

\* the code after `await checkServerCache(...)`, or the caller of
\* checkServerCache itself, once the lookup future has a value
AfterLookup(st, c, out) ==
  LET r == st.calls[c] IN
  IF out.type = "error"
    THEN SetCall(st, c, [r EXCEPT !.pc = "failed", !.rejected = out.error])
  ELSE IF out.type = "found"
    THEN SetCall(st, c, [r EXCEPT !.pc = "done", !.result = out.url,
                                  !.path = "server"])
  ELSE IF r.op = "cache"
    THEN IssueFetch(st, c)
  ELSE SetCall(st, c, [r EXCEPT !.pc = "done", !.result = NullLoc])

\* resolve(...) or reject(...) of the continuation pair created by call c:
\* a promise takes the first settlement only
Settle(st, c, out) ==
  LET st1 == SetCall(st, c, [st.calls[c] EXCEPT !.nSettle = @ + 1])
      st2 == SetCall(st1, c, [st1.calls[c] EXCEPT !.out = out.type])
  IN  IF st.calls[c].pc = "lookup" THEN AfterLookup(st2, c, out) ELSE st1

\* checkServerCache, the promise executor: register, send, arm the timer
StartLookup(st, c) ==
  LET k == st.calls[c].key
      st1 == [st EXCEPT
                !.calls[c] = [@ EXCEPT !.pc = "lookup", !.nLookup = @ + 1],
                !.pendingRequests = Put(@, k, c),
                !.timerQueue = Append(@, c)]
  IN  Send(st1, "lookup", PluginCheckFile(st.files, k))

\* a checkServerCache that starts the round trip whatever the probe said
LookupGateIgnoresProbe(st, c, available) == StartLookup(st, c)

\* checkServerCache after `await this.serverAvailablePromise`
LookupGate(st, c, available) ==
  IF available THEN StartLookup(st, c)
  ELSE AfterLookup(st, c, Msg("null", <<>>, NullLoc, NoMeta))

\* checkServerCache from its first line
checkServerCache(st, c, av) ==
  IF ~hot THEN LookupGate(st, c, FALSE)
  ELSE IF av = "unknown"
    THEN [st EXCEPT !.calls[c] = [@ EXCEPT !.pc = "probe"],
                    !.probeWaiters = Append(@, [kind |-> "call", id |-> c])]
  ELSE LookupGate(st, c, av = "yes")

\* an uploadToServer that goes on whatever the probe said
UploadGateIgnoresProbe(st, u, available) ==
  [st EXCEPT !.uploads[u] = [@ EXCEPT !.stage = "dataUrl"]]

\* uploadToServer after `await this.serverAvailablePromise`
UploadGate(st, u, available) ==
  [st EXCEPT !.uploads[u] =
     [@ EXCEPT !.stage = IF available THEN "dataUrl" ELSE "skipped"]]

\* uploadToServer from its first line
uploadToServer(st, u, av) ==
  IF ~hot THEN UploadGate(st, u, FALSE)
  ELSE IF av = "unknown"
    THEN [st EXCEPT !.uploads[u] = [@ EXCEPT !.stage = "probe"],
                    !.probeWaiters = Append(@, [kind |-> "upload", id |-> u])]
  ELSE UploadGate(st, u, av = "yes")

RECURSIVE RunWaiters(_, _, _)
\* the reactions of serverAvailablePromise run in registration order
RunWaiters(st, ws, available) ==
  IF Len(ws) = 0 THEN st
  ELSE LET w == Head(ws)
           st1 == IF w.kind = "call" THEN LookupGate(st, w.id, available)
                  ELSE UploadGate(st, w.id, available)
       IN  RunWaiters(st1, Tail(ws), available)

\* resolve(value) of the probe promise: the first resolution wins
ResolveProbe(st, av, available) ==
  IF av = "unknown"
    THEN [RunWaiters(st, st.probeWaiters, available)
            EXCEPT !.probeWaiters = <<>>]
    ELSE st

Terminal(r) == r.pc \in {"done", "failed"}

\* the call that handed a value or an error to its caller in this step
ReturnEvent(old, new) ==
  LET fin == { c \in 1..Len(new) :
                 /\ Terminal(new[c])
                 /\ (c \in 1..Len(old) => ~Terminal(old[c])) }
  IN  IF fin = {} THEN NoEvent
      ELSE LET c == CHOOSE x \in fin : TRUE IN
           [type |-> IF new[c].pc = "done" THEN "return" ELSE "reject",
            id |-> c, key |-> new[c].key, url |-> new[c].result,
            meta |-> NoMeta]

\* write a client state back into the variables
CommitState(st) ==
  /\ calls' = st.calls
  /\ pendingRequests' = st.pendingRequests
  /\ toClient' = st.toClient
  /\ files' = st.files
  /\ timerQueue' = st.timerQueue
  /\ uploads' = st.uploads
  /\ sent' = st.sent
  /\ probeWaiters' = st.probeWaiters

\* the same, with the value or error a finished call hands to its caller
Commit(st) == CommitState(st) /\ ev' = ReturnEvent(calls, st.calls)

(* ------------------------------ Cache --------------------------------- *)
\* an initializeHMR without the import.meta.hot guard
ProbingWithoutHot == ~instance

\* getInstance creates the singleton on first use and runs initializeHMR,
\* which under HMR creates the probe promise: send, arm the 500 ms timer
Probing == ~instance /\ hot

availAfterInit == IF Probing THEN "unknown" ELSE avail

\* a getInstance that runs initializeHMR on every call
StateAfterInitEveryCall ==
  IF hot
    THEN Send(ClientState, "avail", PluginCheckAvailable(files))
    ELSE ClientState

StateAfterInit ==
  IF Probing
    THEN Send(ClientState, "avail", PluginCheckAvailable(files))
    ELSE ClientState

initializeHMR ==
  /\ instance' = TRUE
  /\ avail' = availAfterInit
  /\ probeTimer' = IF Probing THEN "armed" ELSE probeTimer

\* Cache.getInstance() called on its own
getInstance ==
  /\ ~instance
  /\ initializeHMR
  /\ Commit(StateAfterInit)
  /\ UNCHANGED << keyCalls, cleanup, plugin, hot, cache, nextBlob, stores >>

\* a memory check that never finds a row
hasNever(map, k) == FALSE

\* Cache.get(cacheKey) finds a row
has(map, k) == k \in DOMAIN map

\* Cache.get(cacheKey): this.cache.get(cacheKey) ?? null, the row as a
\* sequence of one element, null as the empty sequence
get(map, k) == IF k \in DOMAIN map THEN << map[k] >> ELSE <<>>

\* a key selection that derives the key from the identifier alone
SelectKeyIgnoresOptions(u, ck, t) ==
  IF ck # <<>> /\ ck[1] # <<>> THEN ck[1] ELSE generateCacheKey(u, <<>>)

\* options.cacheKey || CacheUtils.generateCacheKey(urlString, opts): the key
\* cache() and cached() select (opts = options.cacheKeyOptions || []), and
\* cacheUrl after cache() (opts = [])
SelectKey(u, ck, t) ==
  IF ck # <<>> /\ ck[1] # <<>> THEN ck[1] ELSE generateCacheKey(u, t)

\* an earlier cache() call with the same input and options that has resolved
Predecessor(input, ck, t, m, mime) ==
  LET ps == { p \in 1..Len(calls) :
                /\ calls[p].op = "cache" /\ calls[p].pc = "done"
                /\ calls[p].input = input /\ calls[p].ckey = ck
                /\ calls[p].opts = t /\ calls[p].meta = m
                /\ calls[p].mime = mime }
  IN  IF ps = {} THEN 0 ELSE CHOOSE p \in ps : \A q \in ps : p <= q

\* cache(input, options) up to its first suspension, through cacheUrl
cacheUrl(input, ck, t, m, mime) ==
  LET c == Len(calls) + 1
      u == urlString(input)
      k == SelectKey(u, << SelectKey(u, ck, t) >>, <<>>)
      r == NewCall("cache", input, ck, t, k, m, mime,
                   Predecessor(input, ck, t, m, mime))
      st0 == [StateAfterInit EXCEPT !.calls = Append(@, r)]
      st1 == IF has(cache, k)
               THEN SetCall(st0, c, [r EXCEPT !.pc = "done",
                                              !.result = cache[k].url,
                                              !.path = "memory",
                                              !.hit = TRUE])
               ELSE checkServerCache(st0, c, availAfterInit)
  IN  /\ Len(calls) < MaxCalls
      /\ initializeHMR
      /\ Commit(st1)
      /\ UNCHANGED << keyCalls, cleanup, plugin, hot, cache, nextBlob, stores >>

\* cached(input, options): the value it returns
cachedValue(input, ck, t) ==
  LET k == SelectKey(urlString(input), ck, t) IN
  IF has(cache, k) THEN cache[k].url ELSE NullLoc

\* cached(input, options): getInstance, then a read of the Memory Table
cached(input, ck, t) ==
  /\ initializeHMR
  /\ CommitState(StateAfterInit)
  /\ ev' = NoEvent
  /\ UNCHANGED << keyCalls, cleanup, plugin, hot, cache, nextBlob, stores >>

\* Cache.getInstance().checkServerCache(cacheKey) called by the user
checkServerCacheCall(k) ==
  LET c == Len(calls) + 1
      r == NewCall("check", NoInput, <<>>, <<>>, k, "undefined", "undefined",
                   0)
      st0 == [ClientState EXCEPT !.calls = Append(@, r)]
  IN  /\ instance
      /\ Len(calls) < MaxCalls
      /\ Commit(checkServerCache(st0, c, avail))
      /\ UNCHANGED << keyCalls, cleanup, plugin,
                      hot, instance, avail, probeTimer, cache, nextBlob,
                      stores >>

NewUpload(k, m, mime, stage) ==
  [key |-> k, meta |-> m, mime |-> mime, stage |-> stage]

\* a cacheResult that stores the location but loses the metadata
cacheResultDropsMetadata(map, k, url, m) ==
  Put(map, k, [url |-> url, metadata |-> ClientMeta("undefined")])

\* a cacheResult that leaves a key's existing row as it is
cacheResultKeepsExisting(map, k, url, m) ==
  IF k \in DOMAIN map THEN map
  ELSE Put(map, k, [url |-> url, metadata |-> ClientMeta(m)])

\* cacheResult: set(cacheKey, {url, metadata})
cacheResult(map, k, url, m) ==
  Put(map, k, [url |-> url, metadata |-> ClientMeta(m)])

StoreEvent(k, url, m) ==
  [type |-> "store", id |-> 0, key |-> k, url |-> url, meta |-> ClientMeta(m)]

\* Cache.getInstance().cacheResult(cacheKey, url, metadata) called by the
\* user; it returns nothing
cacheResultCall(k, url, m) ==
  /\ instance
  /\ stores < MaxResults
  /\ stores' = stores + 1
  /\ cache' = cacheResult(cache, k, url, m)
  /\ ev' = [type |-> "set", id |-> 0, key |-> k, url |-> url,
            meta |-> ClientMeta(m)]
  /\ UNCHANGED << keyCalls, cleanup, plugin,
                  hot, instance, avail, probeTimer, probeWaiters,
                  pendingRequests, calls, timerQueue, uploads, toClient,
                  files, sent, nextBlob >>

\* cacheBlob(blob, {cacheKey, metadata, mimeType}) on a blob whose type is
\* type ('' when it has none), with the MIME type
\* options.mimeType || blob.type || 'application/octet-stream': the upload
\* starts only when blob.arrayBuffer() has resolved
cacheBlob(k, m, mime, type) ==
  /\ instance
  /\ stores < MaxStores
  /\ stores' = stores + 1
  /\ nextBlob' = nextBlob + 1
  /\ cache' = cacheResult(cache, k, BlobUrl(nextBlob + 1), m)
  /\ uploads' = Append(uploads,
                       NewUpload(k, m, OrElse(mime, OrElse(type, DefaultMime)),
                                 "buf"))
  /\ ev' = StoreEvent(k, BlobUrl(nextBlob + 1), m)
  /\ UNCHANGED << keyCalls, cleanup, plugin,
                  hot, instance, avail, probeTimer, probeWaiters,
                  pendingRequests, calls, timerQueue, toClient, files, sent >>

\* the body of cacheArrayBuffer after the Memory Table write
StoreBuffer(st, k, m, mime, av) ==
  LET u == Len(st.uploads) + 1
      st0 == [st EXCEPT
                !.uploads = Append(@, NewUpload(k, m, OrElse(mime, DefaultMime),
                                                "start"))]
  IN  uploadToServer(st0, u, av)

\* cacheArrayBuffer(arrayBuffer, {cacheKey, metadata}) called by the user
cacheArrayBuffer(k, m) ==
  LET st == StoreBuffer(ClientState, k, m, "undefined", avail) IN
  /\ instance
  /\ stores < MaxStores
  /\ stores' = stores + 1
  /\ nextBlob' = nextBlob + 1
  /\ cache' = cacheResult(cache, k, BlobUrl(nextBlob + 1), m)
  /\ uploads' = st.uploads
  /\ probeWaiters' = st.probeWaiters
  /\ ev' = StoreEvent(k, BlobUrl(nextBlob + 1), m)
  /\ UNCHANGED << keyCalls, cleanup, plugin,
                  hot, instance, avail, probeTimer, pendingRequests, calls,
                  timerQueue, toClient, files, sent >>

\* blob.arrayBuffer().then(...): cacheBlob's upload enters uploadToServer
UploadBufferReady(u) ==
  /\ uploads[u].stage = "buf"
  /\ Commit(uploadToServer(ClientState, u, avail))
  /\ UNCHANGED << keyCalls, cleanup, plugin,
                  hot, instance, avail, probeTimer, cache, nextBlob, stores >>

\* uploadToServer after blobToDataUrl: import.meta.hot.send('cache:upload-file')
\* with metadata || {}
UploadSend(u, accepted) ==
  LET t == uploads[u]
      st == [ClientState EXCEPT !.uploads[u].stage = "sent"]
  IN  /\ t.stage = "dataUrl"
      /\ Commit(Send(st, "upload",
                     PluginUploadFile(files, t.key, t.meta, t.mime,
                                      accepted)))
      /\ UNCHANGED << keyCalls, cleanup, plugin,
                      hot, instance, avail, probeTimer, cache, nextBlob,
                      stores >>

\* a response.ok that is true of every response
responseOkAlways(status) == TRUE

\* response.ok: the status is in the range 200-299
responseOk(status) == status \in 200..299

\* the response of fetch() arrives: !response.ok throws an error whose
\* message holds response.status; otherwise the body is read and cacheUrl
\* returns cacheArrayBuffer(...) with the MIME type
\* options.mimeType || contentType || 'application/octet-stream'
FetchResponse(c, status, contentType) ==
  LET r == calls[c]
      mimeType == OrElse(r.mime, OrElse(contentType, DefaultMime))
      st0 == StoreBuffer(ClientState, r.key, r.meta, mimeType, avail)
      st1 == SetCall(st0, c, [r EXCEPT !.pc = "done",
                                       !.result = BlobUrl(nextBlob + 1),
                                       !.path = "network",
                                       !.mimeType = mimeType])
  IN  /\ r.pc = "fetch"
      /\ IF responseOk(status)
           THEN /\ nextBlob' = nextBlob + 1
                /\ cache' = cacheResult(cache, r.key, BlobUrl(nextBlob + 1),
                                        r.meta)
                /\ Commit(st1)
           ELSE /\ Commit(SetCall(ClientState, c,
                                   [r EXCEPT !.pc = "failed", !.err = status]))
                /\ UNCHANGED << nextBlob, cache >>
      /\ UNCHANGED << keyCalls, cleanup, plugin,
                      hot, instance, avail, probeTimer, stores >>

(* ------------------------- timers and handlers ------------------------ *)
\* the 500 ms timer of the probe fires: resolve(false)
ProbeTimeout ==
  /\ probeTimer = "armed"
  /\ probeTimer' = "fired"
  /\ avail' = IF avail = "unknown" THEN "no" ELSE avail
  /\ Commit(ResolveProbe(ClientState, avail, FALSE))
  /\ UNCHANGED << keyCalls, cleanup, plugin,
                  hot, instance, cache, nextBlob, stores >>

\* the client state once the handler of the next HMR message has taken it
Received == [ClientState EXCEPT !.toClient = Tail(@)]

Receiving(type) == toClient # <<>> /\ Head(toClient).type = type

\* a handler of 'cache:available' whose answer replaces an earlier one
OnAvailableOverwrites ==
  /\ Receiving("cache:available")
  /\ probeTimer' = IF probeTimer = "armed" THEN "cleared" ELSE probeTimer
  /\ avail' = "yes"
  /\ Commit(ResolveProbe(Received, avail, TRUE))
  /\ UNCHANGED << keyCalls, cleanup, plugin,
                  hot, instance, cache, nextBlob, stores >>

\* on('cache:available'): clearTimeout(timeoutId); resolve(true)
OnAvailable ==
  /\ Receiving("cache:available")
  /\ probeTimer' = IF probeTimer = "armed" THEN "cleared" ELSE probeTimer
  /\ avail' = IF avail = "unknown" THEN "yes" ELSE avail
  /\ Commit(ResolveProbe(Received, avail, TRUE))
  /\ UNCHANGED << keyCalls, cleanup, plugin,
                  hot, instance, cache, nextBlob, stores >>

\* the 1000 ms timer armed by the lookup of call c fires
LookupTimeout ==
  /\ timerQueue # <<>>
  /\ LET c == Head(timerQueue)
         k == calls[c].key
         st0 == [ClientState EXCEPT !.timerQueue = Tail(@)]
     IN  Commit(IF k \in DOMAIN pendingRequests
                  THEN Settle([st0 EXCEPT !.pendingRequests = Remove(@, k)],
                              c, Msg("null", k, NullLoc, NoMeta))
                  ELSE st0)
  /\ UNCHANGED << keyCalls, cleanup, plugin,
                  hot, instance, avail, probeTimer, cache, nextBlob, stores >>

\* a settlement that leaves the registration in the registry
SettlePendingKeepsEntry(st, k, out) ==
  IF k \in DOMAIN st.pendingRequests
    THEN Settle(st, st.pendingRequests[k], out)
    ELSE st

\* `const pending = this.pendingRequests.get(cacheKey); if (pending) {...}`
SettlePending(st, k, out) ==
  IF k \in DOMAIN st.pendingRequests
    THEN [Settle(st, st.pendingRequests[k], out)
            EXCEPT !.pendingRequests = Remove(@, k)]
    ELSE st

\* handlers that resolve the pending request and leave the table alone
OnFoundResolvesOnly(type) ==
  /\ Receiving(type)
  /\ LET d == Head(toClient)
         ok == d.key # <<>> /\ d.url # NullLoc
     IN  Commit(IF ok THEN SettlePending(Received, d.key,
                                         Msg("found", d.key, d.url, d.meta))
                ELSE Received)
  /\ UNCHANGED << keyCalls, cleanup, plugin,
                  hot, instance, avail, probeTimer, cache, nextBlob,
                  stores >>

\* handlers that write the row only when a lookup is registered for the key
OnFoundOnlyWhenPending(type) ==
  /\ Receiving(type)
  /\ LET d == Head(toClient)
         ok == d.key # <<>> /\ d.url # NullLoc
     IN  /\ cache' = IF ok /\ d.key \in DOMAIN pendingRequests
                       THEN Put(cache, d.key,
                                [url |-> d.url, metadata |-> d.meta])
                     ELSE cache
         /\ Commit(IF ok THEN SettlePending(Received, d.key,
                                            Msg("found", d.key, d.url, d.meta))
                   ELSE Received)
  /\ UNCHANGED << keyCalls, cleanup, plugin,
                  hot, instance, avail, probeTimer, nextBlob, stores >>

\* the handlers of 'cache:upload-success' and of 'cache:file-exists'
OnFound(type) ==
  /\ Receiving(type)
  /\ LET d == Head(toClient)
         ok == d.key # <<>> /\ d.url # NullLoc
     IN  /\ cache' = IF ok THEN Put(cache, d.key,
                                    [url |-> d.url, metadata |-> d.meta])
                     ELSE cache
         /\ Commit(IF ok THEN SettlePending(Received, d.key,
                                            Msg("found", d.key, d.url, d.meta))
                   ELSE Received)
  /\ UNCHANGED << keyCalls, cleanup, plugin,
                  hot, instance, avail, probeTimer, nextBlob, stores >>

OnUploadSuccess == OnFound("cache:upload-success")

OnFileExists == OnFound("cache:file-exists")

\* a handler of 'cache:upload-error' that also drops the row of the key
OnUploadErrorEvicts ==
  /\ Receiving("cache:upload-error")
  /\ cache' = Remove(cache, Head(toClient).key)
  /\ Commit(SettlePending(Received, Head(toClient).key,
                          ErrorMsg("error", Head(toClient).key,
                                   Head(toClient).error)))
  /\ UNCHANGED << keyCalls, cleanup, plugin,
                  hot, instance, avail, probeTimer, nextBlob, stores >>

\* the handler of 'cache:upload-error': reject the pending request with
\* new Error(error)
OnUploadError ==
  /\ Receiving("cache:upload-error")
  /\ Commit(SettlePending(Received, Head(toClient).key,
                          ErrorMsg("error", Head(toClient).key,
                                   Head(toClient).error)))
  /\ UNCHANGED << keyCalls, cleanup, plugin,
                  hot, instance, avail, probeTimer, cache, nextBlob, stores >>

\* the handler of 'cache:file-not-found': resolve the pending request with null
OnFileNotFound ==
  /\ Receiving("cache:file-not-found")
  /\ Commit(SettlePending(Received, Head(toClient).key,
                          Msg("null", Head(toClient).key, NullLoc, NoMeta)))
  /\ UNCHANGED << keyCalls, cleanup, plugin,
                  hot, instance, avail, probeTimer, cache, nextBlob, stores >>

(* ------------------------ administrative reset ------------------------ *)
\* the state of the client and the signals, which the middleware never
\* touches
clientVars == << hot, instance, avail, probeTimer, probeWaiters, cache,
                pendingRequests, calls, timerQueue, uploads, toClient,
                sent, nextBlob, stores, keyCalls, plugin >>

\* a request to '/__cache-cleanup' arrives at the dev server:
\* fs.promises.readdir(cachePath) lists the files
CleanupRequest ==
  /\ hot
  /\ ~cleanup.running /\ cleanup.done < MaxCleanups
  /\ cleanup' = [cleanup EXCEPT !.running = TRUE, !.todo = DOMAIN files,
                                !.atStart = sent.upload]
  /\ ev' = NoEvent
  /\ UNCHANGED << clientVars, files >>

\* an unlink that leaves the files of the key where they are
CleanupUnlinkKeepsFile(k) ==
  /\ cleanup.running /\ k \in cleanup.todo
  /\ cleanup' = [cleanup EXCEPT !.todo = @ \ {k}]
  /\ ev' = NoEvent
  /\ UNCHANGED << clientVars, files >>

\* one round of the loop: fs.promises.unlink of the files of a listed key
CleanupUnlink(k) ==
  /\ cleanup.running /\ k \in cleanup.todo
  /\ files' = Remove(files, k)
  /\ cleanup' = [cleanup EXCEPT !.todo = @ \ {k}]
  /\ ev' = NoEvent
  /\ UNCHANGED clientVars

\* the loop has ended: the request is answered 'Cache cleared'
CleanupDone ==
  /\ cleanup.running /\ cleanup.todo = {}
  /\ cleanup' = [cleanup EXCEPT !.running = FALSE, !.done = @ + 1,
                                !.atEnd = sent.upload]
  /\ ev' = NoEvent
  /\ UNCHANGED << clientVars, files >>

CleanupStep ==
  \/ CleanupRequest
  \/ \E k \in AllKeys : CleanupUnlink(k)
  \/ CleanupDone

(* --------------------------- specification ---------------------------- *)
(* ------------------- the plugin, one await at a time ------------------ *)
\* Each handler of the plugin is an async function: between its awaits the
\* handlers of other signals and the cleanup request run.  A write makes
\* its file visible, whole, in the step in which it completes, unless it
\* overlapped a write to the same file (raced), when the file may also hold
\* a mixture of the two (torn).

\* every variable but plugin
coarseVars == << hot, instance, avail, probeTimer, probeWaiters, cache,
                 pendingRequests, calls, timerQueue, uploads, toClient,
                 files, sent, nextBlob, stores, ev, keyCalls, cleanup >>

\* 1024 * 1024
MB == 1048576

\* the lengths of bufferData in the uploads to a plugin with the given
\* maxFileSize: that many megabytes, and one byte more
UploadSizes(maxFileSize) == { maxFileSize * MB, maxFileSize * MB + 1 }
\* the mimeType of the upload signals
PluginMimes == { "audio/mpeg", DefaultMime }

\* a file name `${stem}.${ext}` in cachePath
FileName(stem, ext) == [stem |-> stem, ext |-> ext]
\* `${cacheKey}.meta.json`
MetadataName(k) == FileName(k, "meta.json")

\* an object without fields: the metadata || {} of a call without metadata
NoFields == [f \in {} |-> 0]
\* the metadata of the upload signals: {}, {fileName: 'x.txt'}, and an
\* object with the fields cacheKey, mimeType, fileSize and createdAt
UserMetadata ==
  { NoFields,
    [fileName |-> FileName(<<120>>, "txt")],
    [cacheKey |-> <<122>>, mimeType |-> "text/html", fileSize |-> 0,
     createdAt |-> 0] }

\* {...base, ...metadata}: the fields of metadata replace those of base
Spread(base, metadata) ==
  [f \in DOMAIN base \cup DOMAIN metadata |->
     IF f \in DOMAIN metadata THEN metadata[f] ELSE base[f]]

getExtensionFromMimeType(mimeType) ==
  CASE mimeType = "audio/mpeg" -> "mp3"
    [] mimeType = "image/png" -> "png"
    [] mimeType = "text/plain" -> "txt"
    [] OTHER -> "bin"

\* '/' + path.join(cachePath, fileName)
Location(fileName) == [kind |-> "file", name |-> fileName]

\* a size check that refuses a file of exactly maxFileSize megabytes
TooLargeAtLimit(size, maxFileSize) == size >= maxFileSize * MB

\* fileSizeMB > maxFileSize, with fileSizeMB = bufferData.length / MB
TooLarge(size, maxFileSize) == size > maxFileSize * MB

\* what readFile returns before it was called, and when the file is gone
NoRead == [kind |-> "none", from |-> 0, size |-> 0, json |-> NoFields]
Gone == [kind |-> "gone", from |-> 0, size |-> 0, json |-> NoFields]

\* the handler of a signal: what the signal carried (size: the length of the
\* decoded data), how far the handler has come (stage), whether its current
\* write overlapped another write to the same file (raced), the name of its
\* content file (fileName), what its readFile returned (read), and how many
\* answers the plugin had sent when the signal arrived (after)
Handler(type, k, mime, metadata, size, stage, fileName) ==
  [type |-> type, key |-> k, mime |-> mime, metadata |-> metadata,
   size |-> size, stage |-> stage, raced |-> FALSE, fileName |-> fileName,
   read |-> NoRead, after |-> Len(plugin.replies)]

\* client.send(type, {...}) in the handler of signal h
Reply(h, type, k, url, meta, error) ==
  [to |-> h, type |-> type, key |-> k, url |-> url, meta |-> meta,
   error |-> error]

\* the handlers that are writing the file of the given name
Writing(hs, stage, name) ==
  { h \in 1..Len(hs) :
      /\ hs[h].stage = stage
      /\ name = IF stage = "content" THEN hs[h].fileName
                ELSE MetadataName(hs[h].key) }

\* a write to the file starts: it and the writes under way overlap
Overlap(hs, stage, name) ==
  [h \in 1..Len(hs) |->
     IF /\ h \in Writing(hs, stage, name)
        /\ Cardinality(Writing(hs, stage, name)) > 1
       THEN [hs[h] EXCEPT !.raced = TRUE]
       ELSE hs[h]]

\* the content file an upload leaves (from: the signal whose data it holds,
\* 0 when it holds a mixture)
ContentFile(h, size, torn) ==
  [kind |-> "content", from |-> IF torn THEN 0 ELSE h,
   size |-> size, json |-> NoFields]

\* the metadata file an upload leaves (json: the object written, NoFields
\* with from = 0 when the text is cut or mixed and does not parse)
MetadataFile(h, json, torn) ==
  [kind |-> "meta", from |-> IF torn THEN 0 ELSE h, size |-> 0,
   json |-> IF torn THEN NoFields ELSE json]

\* metadataContent of the handler of signal h (createdAt: the time, counted
\* in signals)
metadataContent(h, r) ==
  Spread([cacheKey |-> r.key, mimeType |-> r.mime, fileSize |-> r.size,
          fileName |-> r.fileName, createdAt |-> h],
         r.metadata)

\* server.ws.on('cache:upload-file') up to `await writeFile(filePath, ...)`:
\* a file that is too large is answered at once
PluginOnUploadFile(k, mime, metadata, size) ==
  LET h == Len(plugin.handlers) + 1
      fileName == FileName(k, getExtensionFromMimeType(mime))
      refused == TooLarge(size, plugin.maxFileSize)
      r == Handler("upload", k, mime, metadata, size,
                   IF refused THEN "done" ELSE "content", fileName)
      hs == Append(plugin.handlers, r)
  IN  /\ hot
      /\ Len(plugin.handlers) < MaxSignals
      /\ plugin' =
           IF refused
             THEN [plugin EXCEPT
                     !.handlers = hs,
                     !.replies = Append(@, Reply(h, "cache:upload-error", k,
                                                 NullLoc, NoFields,
                                                 "File too large"))]
             ELSE [plugin EXCEPT
                     !.handlers = Overlap(hs, "content", fileName)]
      /\ UNCHANGED coarseVars

\* the write stream of handler h finishes or fails; then metadataContent is
\* built and fs.promises.writeFile(metadataPath, ...) starts
PluginContentWritten(h, ok, torn) ==
  LET r == plugin.handlers[h]
      hs == [plugin.handlers EXCEPT ![h] = [r EXCEPT !.stage = "meta",
                                                     !.raced = FALSE]]
  IN  /\ h \in 1..Len(plugin.handlers)
      /\ r.stage = "content"
      /\ torn => (ok /\ r.raced)
      /\ plugin' =
           IF ok
             THEN [plugin EXCEPT
                     !.dir = Put(@, r.fileName, ContentFile(h, r.size, torn)),
                     !.handlers = Overlap(hs, "meta", MetadataName(r.key))]
             ELSE [plugin EXCEPT
                     !.handlers[h].stage = "done",
                     !.replies = Append(@, Reply(h, "cache:upload-error",
                                                 r.key, NullLoc, NoFields,
                                                 "write failed"))]
      /\ UNCHANGED coarseVars

\* the write of the metadata file of handler h completes or fails, and the
\* handler answers
PluginMetadataWritten(h, ok, torn) ==
  LET r == plugin.handlers[h]
      json == metadataContent(h, r)
  IN  /\ h \in 1..Len(plugin.handlers)
      /\ r.stage = "meta"
      /\ torn => (ok /\ r.raced)
      /\ plugin' =
           IF ok
             THEN [plugin EXCEPT
                     !.dir = Put(@, MetadataName(r.key),
                                 MetadataFile(h, json, torn)),
                     !.handlers[h].stage = "done",
                     !.replies = Append(@, Reply(h, "cache:upload-success",
                                                 r.key, Location(r.fileName),
                                                 json, "none"))]
             ELSE [plugin EXCEPT
                     !.handlers[h].stage = "done",
                     !.replies = Append(@, Reply(h, "cache:upload-error",
                                                 r.key, NullLoc, NoFields,
                                                 "write failed"))]
      /\ UNCHANGED coarseVars

\* server.ws.on('cache:check-file') up to `await fs.promises.readFile(...)`:
\* without a metadata file the answer is not-found at once
PluginOnCheckFile(k) ==
  LET h == Len(plugin.handlers) + 1
      exists == MetadataName(k) \in DOMAIN plugin.dir
      r == Handler("lookup", k, "none", NoFields, 0,
                   IF exists THEN "read" ELSE "done", MetadataName(k))
  IN  /\ hot
      /\ Len(plugin.handlers) < MaxSignals
      /\ plugin' =
           [plugin EXCEPT
              !.handlers = Append(@, r),
              !.replies = IF exists THEN @
                          ELSE Append(@, Reply(h, "cache:file-not-found", k,
                                               NullLoc, NoFields, "none"))]
      /\ UNCHANGED coarseVars

\* readFile of handler h takes the text of the metadata file: Gone when
\* the file has been unlinked, and possibly a cut text while an upload of the
\* key is writing the file
PluginMetadataRead(h, cut) ==
  LET r == plugin.handlers[h]
      name == MetadataName(r.key)
  IN  /\ h \in 1..Len(plugin.handlers)
      /\ r.stage = "read"
      /\ cut => (name \in DOMAIN plugin.dir
                   /\ Writing(plugin.handlers, "meta", name) # {})
      /\ plugin' =
           [plugin EXCEPT
              !.handlers[h].stage = "parse",
              !.handlers[h].read =
                 IF name \notin DOMAIN plugin.dir THEN Gone
                 ELSE IF cut THEN MetadataFile(0, NoFields, TRUE)
                 ELSE plugin.dir[name]]
      /\ UNCHANGED coarseVars

\* metadata.fileName || `${cacheKey}.bin`
NamedFile(json, k) ==
  IF "fileName" \in DOMAIN json THEN json["fileName"] ELSE FileName(k, "bin")

\* an answer that is found whenever the metadata file was read and parses
CheckFileReplyMetadataOnly(h, r, dir) ==
  IF r.read.kind = "gone" \/ r.read.from = 0
    THEN Reply(h, "cache:file-not-found", r.key, NullLoc, NoFields, "none")
    ELSE Reply(h, "cache:file-exists", r.key,
               Location(NamedFile(r.read.json, r.key)), r.read.json, "none")

\* the answer of the check-file handler once readFile has returned: found
\* when the text parses and the file it names exists
CheckFileReply(h, r, dir) ==
  IF r.read.kind = "gone" \/ r.read.from = 0
    THEN Reply(h, "cache:file-not-found", r.key, NullLoc, NoFields, "none")
  ELSE IF NamedFile(r.read.json, r.key) \in DOMAIN dir
    THEN Reply(h, "cache:file-exists", r.key,
               Location(NamedFile(r.read.json, r.key)), r.read.json, "none")
  ELSE Reply(h, "cache:file-not-found", r.key, NullLoc, NoFields, "none")

\* the check-file handler h after readFile: JSON.parse, existsSync(filePath),
\* the answer; an error of readFile or JSON.parse is answered not-found
PluginCheckAnswer(h) ==
  LET r == plugin.handlers[h] IN
  /\ h \in 1..Len(plugin.handlers)
  /\ r.stage = "parse"
  /\ plugin' = [plugin EXCEPT
                  !.handlers[h].stage = "done",
                  !.replies = Append(@, CheckFileReply(h, r, plugin.dir))]
  /\ UNCHANGED coarseVars

\* '/__cache-cleanup': readdir lists the files of cachePath
PluginCleanupRequest ==
  /\ hot
  /\ ~plugin.cleaning /\ plugin.resets < MaxCleanups
  /\ plugin' = [plugin EXCEPT !.cleaning = TRUE, !.resets = @ + 1,
                              !.listed = DOMAIN plugin.dir]
  /\ UNCHANGED coarseVars

\* one round of its loop: unlink of a listed file
PluginCleanupUnlink(name) ==
  /\ plugin.cleaning /\ name \in plugin.listed
  /\ plugin' = [plugin EXCEPT !.listed = @ \ {name},
                              !.dir = Remove(@, name)]
  /\ UNCHANGED coarseVars

\* the loop has ended: 'Cache cleared'
PluginCleanupDone ==
  /\ plugin.cleaning /\ plugin.listed = {}
  /\ plugin' = [plugin EXCEPT !.cleaning = FALSE]
  /\ UNCHANGED coarseVars

PluginSignal ==
  \/ \E k \in AllKeys, mime \in PluginMimes, metadata \in UserMetadata,
        size \in UploadSizes(plugin.maxFileSize) :
       PluginOnUploadFile(k, mime, metadata, size)
  \/ \E k \in AllKeys : PluginOnCheckFile(k)

PluginAwait ==
  \E h \in 1..MaxSignals :
    \/ \E ok \in BOOLEAN, torn \in BOOLEAN : PluginContentWritten(h, ok, torn)
    \/ \E ok \in BOOLEAN, torn \in BOOLEAN : PluginMetadataWritten(h, ok, torn)
    \/ \E cut \in BOOLEAN : PluginMetadataRead(h, cut)
    \/ PluginCheckAnswer(h)

PluginCleanup ==
  \/ PluginCleanupRequest
  \/ \E name \in DOMAIN plugin.dir : PluginCleanupUnlink(name)
  \/ PluginCleanupDone

PluginNext == PluginSignal \/ PluginAwait \/ PluginCleanup

\* configureServer: the options are read and the directory is created; the
\* maxFileSize option is an optional number, kept as a sequence of at most
\* one number: absent, or 1
PluginInit ==
  /\ InitWith({}) /\ hot
  /\ keyCalls = NoKeyCalls
  /\ \E opt \in { <<>>, <<1>> } :
       plugin = [NoPlugin EXCEPT
                   !.maxFileSize = IF opt = <<>> THEN 50 ELSE opt[1]]

\* the plugin alone, driven by the signals of some client
PluginSpec == PluginInit /\ [][PluginNext]_vars

UserStep ==
  \/ getInstance
  \/ \E u \in Urls, ck \in CacheKeyOpts, m \in CallMetas, mime \in Mimes :
       cacheUrl(u, ck, <<>>, m, mime)
  \/ \E u \in Urls, ck \in CacheKeyOpts : cached(u, ck, <<>>)
  \/ \E k \in StoreKeys : checkServerCacheCall(k)
  \/ \E k \in StoreKeys, m \in Metas, mime \in Mimes, type \in BlobTypes :
       cacheBlob(k, m, mime, type)
  \/ \E k \in StoreKeys, m \in Metas : cacheArrayBuffer(k, m)

\* the completion of blob.arrayBuffer() in cacheBlob
BufferStep == \E u \in 1..Len(uploads) : UploadBufferReady(u)

\* the FileReader completions, timer callbacks and HMR message handlers
HandlerStep ==
  \/ \E u \in 1..Len(uploads), accepted \in BOOLEAN : UploadSend(u, accepted)
  \/ ProbeTimeout
  \/ LookupTimeout
  \/ OnAvailable
  \/ OnUploadSuccess
  \/ OnFileExists
  \/ OnUploadError
  \/ OnFileNotFound

ClientStep == BufferStep \/ HandlerStep

NetworkStep ==
  \E c \in 1..Len(calls), status \in Statuses, ct \in ContentTypes :
    FetchResponse(c, status, ct)

Next == UserStep \/ ClientStep \/ NetworkStep

Spec == Init /\ [][Next]_vars

\* the same program called with options.cacheKeyOptions, and without direct
\* cacheBlob / cacheArrayBuffer calls
OptionsUserStep ==
  \/ \E u \in Urls, ck \in OptionKeyOpts, t \in KeyOptions, m \in CallMetas,
        mime \in Mimes :
       cacheUrl(u, ck, t, m, mime)
  \/ \E u \in Urls, ck \in OptionKeyOpts, t \in QueryKeyOptions :
       cached(u, ck, t)
  \/ \E k \in StoreKeys : checkServerCacheCall(k)

OptionsNext == OptionsUserStep \/ HandlerStep \/ NetworkStep

OptionsInit ==
  InitWith(OptionKeys) /\ keyCalls = NoKeyCalls /\ plugin = NoPlugin

OptionsSpec == OptionsInit /\ [][OptionsNext]_vars

\* the program without direct stores, and cleanup requests to the plugin
ResetUserStep ==
  \/ \E u \in Urls, ck \in CacheKeyOpts, m \in CallMetas, mime \in Mimes :
       cacheUrl(u, ck, <<>>, m, mime)
  \/ \E k \in StoreKeys : checkServerCacheCall(k)

ResetNext == ResetUserStep \/ HandlerStep \/ NetworkStep \/ CleanupStep

ResetSpec == Init /\ [][ResetNext]_vars

\* cache() and cached() on a string and on a URL object, with and without
\* a MIME override, and responses with and without a declared content type
InputsUserStep ==
  \/ \E i \in Inputs, m \in CallMetas, mime \in MimeOverrides :
       cacheUrl(i, <<>>, <<>>, m, mime)
  \/ \E i \in Inputs : cached(i, <<>>, <<>>)

InputsNetworkStep ==
  \E c \in 1..Len(calls), status \in Statuses, ct \in DeclaredTypes :
    FetchResponse(c, status, ct)

InputsNext == InputsUserStep \/ HandlerStep \/ InputsNetworkStep

InputsInit ==
  InitWith(InputKeys) /\ keyCalls = NoKeyCalls /\ plugin = NoPlugin

InputsSpec == InputsInit /\ [][InputsNext]_vars

\* cache() and cacheBlob() with every kind of MIME override, blobs with and
\* without a type, and responses with every kind of content-type header
MimeUserStep ==
  \/ \E u \in Urls, m \in CallMetas, mime \in MimeValues :
       cacheUrl(u, <<>>, <<>>, m, mime)
  \/ \E k \in StoreKeys, m \in CallMetas, mime \in MimeValues,
        type \in TypedBlobs :
       cacheBlob(k, m, mime, type)

MimeNetworkStep ==
  \E c \in 1..Len(calls), status \in Statuses, ct \in HeaderValues :
    FetchResponse(c, status, ct)

MimeNext == MimeUserStep \/ ClientStep \/ MimeNetworkStep

\* the plugin's directory is empty at the start
MimeInit == InitWith({}) /\ keyCalls = NoKeyCalls /\ plugin = NoPlugin

MimeSpec == MimeInit /\ [][MimeNext]_vars

\* the Memory Table's own operations, with the direct stores, the lookups
\* and the handlers that write rows
TableUserStep ==
  \/ getInstance
  \/ \E k \in AllKeys, url \in ResultUrls, m \in Metas :
       cacheResultCall(k, url, m)
  \/ \E k \in StoreKeys, m \in Metas : cacheArrayBuffer(k, m)
  \/ \E k \in StoreKeys : checkServerCacheCall(k)

TableNext == TableUserStep \/ HandlerStep

TableSpec == Init /\ [][TableNext]_vars

\* the key deriver alone: two generateCacheKey calls, one after the other
KeyInit ==
  /\ InitWith({})
  /\ ~hot
  /\ plugin = NoPlugin
  /\ \E a1 \in KeyArgs, a2 \in KeyArgs :
       keyCalls = [args |-> <<a1, a2>>, keys |-> <<>>]

\* CacheUtils.generateCacheKey(content, opts) is called and returns
generateCacheKeyCall ==
  LET a == keyCalls.args[Len(keyCalls.keys) + 1] IN
  /\ Len(keyCalls.keys) < Len(keyCalls.args)
  /\ keyCalls' = [keyCalls EXCEPT
                    !.keys = Append(@, generateCacheKey(a.content, a.opts))]
  /\ UNCHANGED cacheVars

KeyNext == generateCacheKeyCall

KeySpec == KeyInit /\ [][KeyNext]_vars

\* the event loop runs every timer callback, message handler, FileReader
\* completion and network response that is due
FairSpec == Spec /\ WF_vars(ClientStep) /\ WF_vars(NetworkStep)


(* ------------------------------ claims -------------------------------- *)
CacheCalls == { c \in 1..Len(calls) : calls[c].op = "cache" }
CheckCalls == { c \in 1..Len(calls) : calls[c].op = "check" }

\* the step is the arrival of the response of call c's network request,
\* with the given status
FetchResponds(c, status) ==
  \E ct \in DeclaredTypes : FetchResponse(c, status, ct)

\* the row of key k is {url, metadata}
RowIs(k, url, m) ==
  k \in DOMAIN cache /\ cache[k] = [url |-> url, metadata |-> m]

\* C1: when cacheBlob / cacheArrayBuffer returns location L for key k, the
\* Memory Table already holds k -> {url: L, metadata: the supplied metadata};
\* the write waits neither for the availability probe nor for the upload.
C1_StoreVisibleOnReturn ==
  ev.type = "store" => RowIs(ev.key, ev.url, ev.meta)

\* a store has just returned with metadata while the probe is still in
\* flight and nothing has been uploaded
C1_Witness ==
  /\ ev.type = "store" /\ ev.meta.user = "m1"
  /\ avail = "unknown" /\ sent.upload = 0
  /\ RowIs(ev.key, ev.url, ev.meta)

\* the second call of a pair is a pure memory hit: no lookup signal, no
\* registration, no network request
PureMemoryHit(c) ==
  /\ calls[c].pc = "done" /\ calls[c].path = "memory"
  /\ calls[c].nFetch = 0 /\ calls[c].nLookup = 0 /\ calls[c].nSettle = 0
  /\ \A k \in DOMAIN pendingRequests : pendingRequests[k] # c

\* C2 as stated: two cache() calls with identical input and options, the
\* second started after the first resolved, issue exactly one network
\* retrieval in total, and the second is a pure memory hit.
C2_ExactlyOneRetrieval ==
  \A c \in CacheCalls :
    calls[c].pred # 0 =>
      /\ calls[calls[c].pred].nFetch + calls[c].nFetch = 1
      /\ PureMemoryHit(c)

\* C2 amended: such a pair issues at most one network retrieval in total,
\* exactly one when the first call was served by network retrieval and none
\* when it was served by the Memory Table or the durable store, and the
\* second call is a pure memory hit.
C2_AtMostOneRetrieval ==
  \A c \in CacheCalls :
    calls[c].pred # 0 =>
      LET n == calls[calls[c].pred].nFetch + calls[c].nFetch IN
      /\ n <= 1
      /\ (n = 1 <=> calls[calls[c].pred].path = "network")
      /\ PureMemoryHit(c)

\* a second call has run after a first one that fetched, with the
\* collaborator available and its upload answered in between
C2_Witness ==
  \E c \in CacheCalls :
    /\ calls[c].pred # 0 /\ calls[calls[c].pred].path = "network"
    /\ avail = "yes" /\ sent.upload > 0 /\ toClient = <<>>
    /\ PureMemoryHit(c)

\* C3: two sequential cache() calls with the same input and options return
\* the same location, whatever the collaborator does between them.
C3_SameLocation ==
  \A c \in CacheCalls :
    (calls[c].pred # 0 /\ calls[c].pc = "done") =>
      calls[c].result = calls[calls[c].pred].result

\* C4: every cache() call eventually resolves with a location or rejects
\* with a fetch error, under fairness of timers, handlers and the network.
C4_EveryCallTerminates ==
  \A c \in 1..MaxCalls :
    [](c \in CacheCalls => <>(c \in CacheCalls /\ Terminal(calls[c])))

\* C5: a lookup that registered a pending request stays registered until it
\* is settled, is settled once, and its registration is removed at that
\* moment, also when two lookups for the same key overlap.
C5_SettledExactlyOnce ==
  /\ \A c \in 1..Len(calls) :
       /\ calls[c].pc = "lookup" =>
            /\ calls[c].key \in DOMAIN pendingRequests
            /\ pendingRequests[calls[c].key] = c
       /\ calls[c].nSettle <= 1
  /\ \A k \in DOMAIN pendingRequests : calls[pendingRequests[k]].pc = "lookup"

\* the lookups of key k whose future is unsettled
Unsettled(k) == { c \in 1..Len(calls) : calls[c].pc = "lookup" /\ calls[c].key = k }

\* C6: the number of unsettled lookup futures of a key equals the number of
\* registry entries of the key (0 or 1): a second lookup for a key with a
\* pending lookup neither sends a signal nor replaces the registration.
C6_OneLookupPerKey ==
  \A k \in AllKeys :
    Cardinality(Unsettled(k)) = IF k \in DOMAIN pendingRequests THEN 1 ELSE 0

\* C7: an upload failure rejects no caller's future: a call fails only with
\* the error of its own network retrieval.
C7_UploadErrorSwallowed ==
  \A c \in 1..Len(calls) :
    calls[c].pc = "failed" => (calls[c].op = "cache" /\ calls[c].nFetch = 1)

\* C8: within one cache() call the order is memory check, lookup, network:
\* a request is issued only after a miss in memory and a lookup (if made)
\* that resolved not-found; a lookup answered found ends the call without a
\* request, with the carried location, which the Memory Table row holds when
\* the call returns.
C8_ResolutionOrder ==
  /\ \A c \in CacheCalls :
       /\ calls[c].hit => PureMemoryHit(c)
       /\ calls[c].nFetch > 0 =>
            /\ ~calls[c].hit
            /\ calls[c].nFetch = 1
            /\ calls[c].pc \in {"fetch", "done", "failed"}
            /\ calls[c].nLookup > 0 => calls[c].out = "null"
       /\ calls[c].out = "found" =>
            /\ calls[c].nFetch = 0
            /\ calls[c].pc = "done" /\ calls[c].path = "server"
            /\ calls[c].result = FilePath(calls[c].key)
  /\ (ev.type = "return" /\ calls[ev.id].out = "found") =>
       (ev.key \in DOMAIN cache /\ cache[ev.key].url = ev.url)

\* a cache() call has just returned the location its lookup was answered with
C8_Witness ==
  /\ ev.type = "return" /\ ev.id \in CacheCalls
  /\ calls[ev.id].out = "found" /\ calls[ev.id].nFetch = 0
  /\ ev.url = FilePath(ev.key)
  /\ \E d \in CacheCalls : calls[d].nFetch = 1 /\ calls[d].out = "null"

\* where a cache() call that missed the Memory Table can be when no
\* durable-store round trip is made
NetworkOnly(c) ==
  /\ calls[c].nLookup = 0 /\ calls[c].nSettle = 0
  /\ \/ calls[c].pc = "fetch"
     \/ calls[c].pc = "failed" /\ calls[c].nFetch = 1
     \/ calls[c].pc = "done" /\ calls[c].path = "network"

\* a cache() call that has just returned holds its location in the table
ReturnedRowPresent ==
  (ev.type = "return" /\ ev.id \in CacheCalls) =>
    (ev.key \in DOMAIN cache /\ cache[ev.key].url = ev.url)

\* C9: once the probe has resolved unavailable, a cache() call that misses
\* the Memory Table goes to network retrieval alone: no pending request, no
\* lookup signal, no upload signal, and its returned location is in the table.
C9_UnavailableNetworkOnly ==
  avail = "no" =>
    /\ sent.lookup = 0 /\ sent.upload = 0
    /\ pendingRequests = EmptyMap /\ timerQueue = <<>>
    /\ \A u \in 1..Len(uploads) : uploads[u].stage \in {"buf", "skipped"}
    /\ \A c \in CacheCalls : ~calls[c].hit => NetworkOnly(c)
    /\ ReturnedRowPresent

\* the probe timed out and a cache() call has just returned what it fetched
C9_Witness ==
  /\ avail = "no" /\ probeTimer = "fired"
  /\ ev.type = "return" /\ ev.id \in CacheCalls
  /\ calls[ev.id].path = "network"
  /\ cache[ev.key].url = ev.url
  /\ \E u \in 1..Len(uploads) : uploads[u].stage = "skipped"

\* C10: in standalone mode no signal is ever sent, no pending request is
\* ever registered, checkServerCache resolves not-found, and cache(),
\* cacheBlob() work from the Memory Table and network retrieval only.
C10_Standalone ==
  ~hot =>
    /\ sent = [avail |-> 0, lookup |-> 0, upload |-> 0]
    /\ toClient = <<>> /\ probeWaiters = <<>>
    /\ pendingRequests = EmptyMap /\ timerQueue = <<>>
    /\ avail = "null" /\ probeTimer = "none"
    /\ \A u \in 1..Len(uploads) : uploads[u].stage \in {"buf", "skipped"}
    /\ \A c \in CheckCalls : calls[c].pc = "done" /\ calls[c].result = NullLoc
    /\ \A c \in CacheCalls : calls[c].hit \/ NetworkOnly(c)
    /\ \A c \in CacheCalls : calls[c].hit => PureMemoryHit(c)
    /\ (ev.type = "store" \/ (ev.type = "return" /\ ev.id \in CacheCalls)) =>
         (ev.key \in DOMAIN cache /\ cache[ev.key].url = ev.url)

\* standalone: a store was made, checkServerCache answered not-found and a
\* cache() call was served by network retrieval
C10_Witness ==
  /\ ~hot /\ instance /\ stores > 0
  /\ \E c \in CheckCalls : calls[c].pc = "done" /\ calls[c].result = NullLoc
  /\ \E c \in CacheCalls :
       /\ calls[c].pc = "done" /\ calls[c].path = "network"
       /\ calls[c].key \in DOMAIN cache

\* call c has taken the not-found value as the outcome of its lookup and has
\* gone on: a cache() call to its network request, checkServerCache to
\* returning null
ResolvedAsMiss(cs, c) ==
  /\ cs[c].out = "null"
  /\ IF cs[c].op = "cache"
       THEN cs[c].pc = "fetch" /\ cs[c].nFetch = 1
       ELSE cs[c].pc = "done" /\ cs[c].result = NullLoc

\* C11: a lookup whose 1000 ms timer fires before it is settled, and a
\* lookup pending for the key of a 'cache:file-not-found' response, resolve
\* as a miss in that step; no pending lookup is ever rejected; the enclosing
\* cache() call goes on to its network request.
C11_MissNotError ==
  [][ /\ LookupTimeout =>
           (calls[Head(timerQueue)].pc = "lookup" =>
              ResolvedAsMiss(calls', Head(timerQueue)))
      /\ OnFileNotFound =>
           (Head(toClient).key \in DOMAIN pendingRequests =>
              ResolvedAsMiss(calls', pendingRequests[Head(toClient).key]))
      /\ \A c \in 1..Len(calls) :
           calls[c].pc = "lookup" => calls'[c].out # "error"
    ]_vars

\* C12 as stated: when the network retrieval of a cache() call returns a
\* non-success status the call rejects with the status in its error, after
\* exactly one request and without an upload signal, and if no row existed
\* for its key before the call, none exists after it fails.
C12_NoRowAfterFailure ==
  \A c \in CacheCalls :
    (ev.type = "reject" /\ ev.id = c /\ calls[c].err # 0) =>
      /\ calls[c].nFetch = 1
      /\ ~calls[c].hit => calls[c].key \notin DOMAIN cache

\* C12 amended: ... the failing call itself writes nothing: the step in
\* which it rejects leaves the Memory Table, the signals sent and the upload
\* tasks unchanged, the error holds the status received, exactly one request
\* was issued, and a call that has failed does nothing more (no retry).
C12_FailedFetchWritesNothing ==
  [][ /\ \A c \in 1..Len(calls), status \in Statuses :
           (FetchResponds(c, status) /\ status \notin 200..299) =>
             /\ calls'[c].pc = "failed" /\ calls'[c].err = status
             /\ calls'[c].nFetch = 1
             /\ ev'.type = "reject" /\ ev'.id = c
             /\ cache' = cache /\ sent' = sent /\ uploads' = uploads
             /\ nextBlob' = nextBlob /\ pendingRequests' = pendingRequests
      /\ \A c \in 1..Len(calls) :
           calls[c].pc = "failed" =>
             /\ calls'[c].pc = "failed" /\ calls'[c].err = calls[c].err
             /\ calls'[c].nFetch = calls[c].nFetch
    ]_vars

\* a cache() call has just rejected with status 404 while the collaborator
\* is available: nothing was uploaded and its key has no row
C12_Witness ==
  /\ ev.type = "reject" /\ ev.id \in CacheCalls
  /\ calls[ev.id].err = 404 /\ calls[ev.id].nFetch = 1
  /\ avail = "yes" /\ sent.upload = 0 /\ uploads = <<>>
  /\ calls[ev.id].key \notin DOMAIN cache

\* the 'cache:available' messages waiting to be handled
Acks == { i \in 1..Len(toClient) : toClient[i].type = "cache:available" }

\* C13: the availability-check signal is sent at most once per process,
\* when the singleton is created under HMR, however many getInstance(),
\* cache(), cached(), checkServerCache() and uploadToServer() calls follow;
\* they share the one probe, whose answer arrives at most once.
C13_ProbeSentOnce ==
  /\ sent.avail = IF hot /\ instance THEN 1 ELSE 0
  /\ (avail # "null") = (hot /\ instance)
  /\ Cardinality(Acks) <= 1
  /\ avail = "yes" => Acks = {}
  /\ avail \in {"yes", "no"} => probeWaiters = <<>>

\* one probe was sent although cache(), checkServerCache() and a store
\* have been called and lookup and upload signals have followed it
C13_Witness ==
  /\ hot /\ sent.avail = 1
  /\ CacheCalls # {} /\ CheckCalls # {} /\ stores > 0
  /\ sent.lookup > 0 /\ sent.upload > 0

\* C14: the availability state leaves unknown once, for available when the
\* acknowledgment is handled while the 500 ms timer is armed and for
\* unavailable when the timer fires first, and never changes afterwards; an
\* acknowledgment handled after the timeout changes nothing, so no lookup or
\* upload signal is ever sent once the state is unavailable; the timer of
\* an available probe is cleared and cannot fire.
C14_ProbeResolvesOnce ==
  [][ /\ avail \in {"yes", "no"} => avail' = avail
      /\ (avail = "unknown" /\ avail' = "yes") =>
           (OnAvailable /\ probeTimer = "armed")
      /\ (avail = "unknown" /\ avail' = "no") => ProbeTimeout
      /\ (OnAvailable /\ avail = "no") =>
           /\ toClient' = Tail(toClient)
           /\ UNCHANGED << hot, instance, avail, probeTimer, probeWaiters,
                           cache, pendingRequests, calls, timerQueue, uploads,
                           files, sent, nextBlob, stores >>
      /\ avail = "no" =>
           (sent' = sent /\ sent.lookup = 0 /\ sent.upload = 0)
      /\ avail' = "yes" => probeTimer' = "cleared"
      /\ avail' = "no" => probeTimer' = "fired"
    ]_vars

\* the acknowledgment was handled after the timeout had resolved the probe,
\* and a cache() call has since been served by network retrieval
C14_Witness ==
  /\ hot /\ avail = "no" /\ probeTimer = "fired"
  /\ sent.avail = 1 /\ toClient = <<>>
  /\ \E c \in CacheCalls : calls[c].pc = "done" /\ calls[c].path = "network"

\* C15: a cached() call, in every state and also as the first access to the
\* cache, sends no signal to the collaborator, registers no pending request
\* and leaves the Memory Table unchanged.
C15_CachedTouchesNothing ==
  [][ \A u \in Urls, ck \in OptionKeyOpts, t \in QueryKeyOptions :
        cached(u, ck, t) =>
          /\ sent' = sent /\ toClient' = toClient
          /\ pendingRequests' = pendingRequests
          /\ cache' = cache
    ]_vars

\* the explicit keys: the values of options.cacheKey that are present
ExplicitKeyOpts == OptionKeyOpts \ { <<>> }

\* C16: whenever an explicit key is supplied to cache() or cached(), for
\* every explicit key value and every tag sequence, that key is the one
\* used: the call's key is the explicit key, and cached() returns the
\* location of the explicit key's row, or null when that row is absent.
C16_ExplicitKeyUsed ==
  /\ \A c \in CacheCalls :
       calls[c].ckey \in ExplicitKeyOpts => calls[c].key = calls[c].ckey[1]
  /\ \A u \in Urls, ck \in ExplicitKeyOpts, t \in QueryKeyOptions :
       cachedValue(u, ck, t) =
         IF ck[1] \in DOMAIN cache THEN cache[ck[1]].url ELSE NullLoc

\* the row or registry entry of key k in a map, if any
EntryOf(map, k) == IF k \in DOMAIN map THEN << map[k] >> ELSE <<>>

\* the key of a waiter of the probe
WaiterKey(w) == IF w.kind = "call" THEN calls[w.id].key ELSE uploads[w.id].key

\* the step is an operation, a timer or a collaborator signal that carries
\* key k
Carries(k) ==
  \/ \E u \in Urls, ck \in OptionKeyOpts, t \in KeyOptions, m \in CallMetas,
        mime \in Mimes :
       cacheUrl(u, ck, t, m, mime) /\ calls'[Len(calls')].key = k
  \/ checkServerCacheCall(k)
  \/ \E c \in 1..Len(calls), status \in Statuses :
       FetchResponds(c, status) /\ calls[c].key = k
  \/ \E u \in 1..Len(uploads), accepted \in BOOLEAN :
       UploadSend(u, accepted) /\ uploads[u].key = k
  \/ /\ OnUploadSuccess \/ OnFileExists \/ OnUploadError \/ OnFileNotFound
     /\ Head(toClient).key = k
  \/ LookupTimeout /\ calls[Head(timerQueue)].key = k
  \/ /\ OnAvailable \/ ProbeTimeout
     /\ \E i \in 1..Len(probeWaiters) : WaiterKey(probeWaiters[i]) = k

CallKeys == { calls[c].key : c \in 1..Len(calls) }

\* one key per call, used for its lookup signal, its row and its upload
OneKeyPerCall ==
  /\ \A c \in CacheCalls :
       calls[c].ckey = <<>> =>
         calls[c].key = generateCacheKey(calls[c].url, calls[c].opts)
  /\ \A k \in DOMAIN pendingRequests : calls[pendingRequests[k]].key = k
  /\ \A i \in 1..Len(toClient) :
       toClient[i].type # "cache:available" => toClient[i].key \in CallKeys
  /\ \A u \in 1..Len(uploads) :
       \E c \in CacheCalls :
         calls[c].path = "network" /\ calls[c].key = uploads[u].key
  /\ \A c \in CacheCalls :
       calls[c].path = "network" =>
         \E u \in 1..Len(uploads) : uploads[u].key = calls[c].key
  /\ DOMAIN cache \subseteq CallKeys
  /\ sent.lookup = Cardinality({ c \in 1..Len(calls) : calls[c].nLookup = 1 })

\* C17: rows of different keys are independent: a call uses one key for its
\* memory check, lookup signal, row and upload signal; a step changes the
\* row or the registry entry of a key only if it carries that key; rows are
\* never removed, so cache() calls that returned under different keys have
\* coexisting rows; cached() under a tag sequence whose key no call used
\* returns null.
C17_KeysIndependent ==
  /\ [](/\ OneKeyPerCall
        /\ \A c \in CacheCalls :
             calls[c].pc = "done" => calls[c].key \in DOMAIN cache
        /\ \A u \in Urls, t \in QueryKeyOptions :
             generateCacheKey(urlString(u), t) \notin CallKeys =>
               cachedValue(u, <<>>, t) = NullLoc)
  /\ [][ /\ DOMAIN cache \subseteq DOMAIN cache'
         /\ \A k \in DOMAIN cache' \cup DOMAIN pendingRequests
                     \cup DOMAIN pendingRequests' :
              (\/ EntryOf(cache', k) # EntryOf(cache, k)
               \/ EntryOf(pendingRequests', k) # EntryOf(pendingRequests, k))
                => Carries(k)
       ]_vars

\* the same identifier was cached under two tag sequences with different
\* keys, through the lookup, the network and the upload: two rows coexist
\* and cached() under a third tag sequence returns null
C17_Witness ==
  \E c, d \in CacheCalls :
    /\ calls[c].url = calls[d].url /\ calls[c].opts # calls[d].opts
    /\ calls[c].ckey = <<>> /\ calls[d].ckey = <<>>
    /\ calls[c].key # calls[d].key
    /\ calls[c].path = "network" /\ calls[d].path = "network"
    /\ sent.lookup = 2 /\ sent.upload = 2
    /\ {calls[c].key, calls[d].key} \subseteq DOMAIN cache
    /\ cache[calls[c].key].url # cache[calls[d].key].url
    /\ cachedValue(calls[c].input, <<>>, << <<121>> >>) = NullLoc

\* the code units of the lowercase hexadecimal digits
HexUnits == (48..57) \cup (97..102)

\* the generateCacheKey calls that have returned
Derived == 1..Len(keyCalls.keys)

\* the signed 32-bit hash of the string generateCacheKey builds for call j,
\* as the pair of its halves
HashOf(j) ==
  HashLoop(<<0, 0>>, keyCalls.args[j].content \o <<45>>
                       \o join(keyCalls.args[j].opts, <<45>>))

\* C18: every key generateCacheKey returns is a string of exactly 8
\* lowercase hexadecimal characters, also when the signed hash is 0,
\* negative or -2^31.
C18_EightHexDigits ==
  \A j \in Derived :
    /\ Len(keyCalls.keys[j]) = 8
    /\ \A i \in 1..8 : keyCalls.keys[j][i] \in HexUnits

\* keys were returned for a hash of -2^31 (key 80000000) and for a hash
\* of 0 (key 00000000)
C18_Witness ==
  /\ Len(keyCalls.keys) = 2
  /\ HashOf(1) = <<32768, 0>>
  /\ keyCalls.keys[1] = <<56, 48, 48, 48, 48, 48, 48, 48>>
  /\ HashOf(2) = <<0, 0>>
  /\ keyCalls.keys[2] = <<48, 48, 48, 48, 48, 48, 48, 48>>

\* the string generateCacheKey hashes for call j: content, '-', joined opts
Concatenation(j) ==
  keyCalls.args[j].content \o <<45>> \o join(keyCalls.args[j].opts, <<45>>)

\* C19: for one identifier, two different tag sequences give different
\* concatenations and different keys.
C19_DistinctOptionsDistinctKeys ==
  \A i \in Derived, j \in Derived :
    (/\ keyCalls.args[i].content = keyCalls.args[j].content
     /\ keyCalls.args[i].opts # keyCalls.args[j].opts) =>
      /\ Concatenation(i) # Concatenation(j)
      /\ keyCalls.keys[i] # keyCalls.keys[j]

\* every tag of the sequence is non-empty and holds no '-'
SeparatorFree(opts) ==
  \A n \in 1..Len(opts) :
    /\ opts[n] # <<>>
    /\ \A m \in 1..Len(opts[n]) : opts[n][m] # 45

\* C19 amended: the key is a function of the concatenation: for one
\* identifier and two different tag sequences, equal concatenations give
\* equal keys, the keys differ exactly when the absolute values of the
\* 32-bit hashes differ, and the concatenations differ whenever all tags
\* are non-empty and hold no separator.
C19_KeyFollowsConcatenation ==
  \A i \in Derived, j \in Derived :
    (/\ keyCalls.args[i].content = keyCalls.args[j].content
     /\ keyCalls.args[i].opts # keyCalls.args[j].opts) =>
      /\ Concatenation(i) = Concatenation(j) =>
           keyCalls.keys[i] = keyCalls.keys[j]
      /\ (keyCalls.keys[i] # keyCalls.keys[j]) =
           (Abs32(HashOf(i)) # Abs32(HashOf(j)))
      /\ (SeparatorFree(keyCalls.args[i].opts)
           /\ SeparatorFree(keyCalls.args[j].opts)) =>
           Concatenation(i) # Concatenation(j)

\* the keys of ["a","b"] and ["b","a"] for one identifier were derived and
\* differ
C19_Witness ==
  /\ Len(keyCalls.keys) = 2
  /\ keyCalls.args[1].content = keyCalls.args[2].content
  /\ keyCalls.args[1].opts = << <<97>>, <<98>> >>
  /\ keyCalls.args[2].opts = << <<98>>, <<97>> >>
  /\ Concatenation(1) # Concatenation(2)
  /\ keyCalls.keys[1] # keyCalls.keys[2]

\* the step is an explicit store under key k: cacheBlob, cacheArrayBuffer,
\* or the populate step of a cache() call whose key is k
ExplicitStore(k) ==
  \/ \E m \in Metas :
       \/ \E mime \in MimeValues, type \in TypedBlobs :
            cacheBlob(k, m, mime, type)
       \/ cacheArrayBuffer(k, m)
  \/ \E c \in CacheCalls, status \in Statuses :
       FetchResponds(c, status) /\ responseOk(status) /\ calls[c].key = k

\* C21: a Memory Table row that exists changes its location or metadata
\* only in a step that is an explicit store under its key; no collaborator
\* signal (found, not-found, upload-ok, upload-error) and no timer changes it.
C21_RowChangesOnlyByStore ==
  [][ \A k \in DOMAIN cache :
        EntryOf(cache', k) # EntryOf(cache, k) => ExplicitStore(k)
    ]_vars

\* C22: the Memory Table never evicts: a key that has a row has one in
\* every later state; no operation, timer, collaborator signal or failed
\* call removes a row.
C22_NeverEvicts ==
  [][ \A k \in DOMAIN cache : has(cache', k) ]_vars

\* a row is held although an upload of its key was refused, a lookup timer
\* has fired and a cache() call has failed
C22_Witness ==
  /\ \E k \in DOMAIN cache :
       \E u \in 1..Len(uploads) : uploads[u].key = k /\ uploads[u].stage = "sent"
  /\ \E c \in CacheCalls : calls[c].pc = "failed" /\ calls[c].err = 404
  /\ \E c \in 1..Len(calls) : calls[c].nLookup = 1 /\ calls[c].out = "null"
  /\ toClient = <<>> /\ timerQueue = <<>>
  /\ files = EmptyMap

\* C25: two concurrent cache() calls for one key that both miss the Memory
\* Table each issue a network request and each write the row, and the row
\* left in the table is the one written by the call that populated last
\* (blob URLs are numbered in the order of the populate steps).
C25_LastPopulateWins ==
  \A c \in CacheCalls, d \in CacheCalls :
    (/\ calls[c].key = calls[d].key
     /\ calls[c].path = "network" /\ calls[d].path = "network"
     /\ calls[c].result.id < calls[d].result.id
     /\ stores = 0) =>
      /\ calls[c].nFetch = 1 /\ calls[d].nFetch = 1
      /\ RowIs(calls[d].key, calls[d].result, ClientMeta(calls[d].meta))

\* C28: the 1000 ms timer of a lookup that a collaborator response has
\* settled changes nothing when it fires: the registry and every call stay
\* as they are, so a registration a later lookup made for the key survives.
C28_TimerAffectsOwnLookupOnly ==
  [][ (LookupTimeout /\ calls[Head(timerQueue)].out # "none") =>
        /\ pendingRequests' = pendingRequests
        /\ \A c \in 1..Len(calls) :
             /\ calls'[c].pc = calls[c].pc /\ calls'[c].out = calls[c].out
             /\ calls'[c].result = calls[c].result
    ]_vars

\* C29: when a cache() call resolves with location L, the Memory Table holds
\* a row for the call's key whose location is L, on the memory-hit, the
\* durable-store-hit and the network-retrieval path.
C29_ResolvedLocationInTable ==
  (ev.type = "return" /\ ev.id \in CacheCalls) =>
    /\ calls[ev.id].path \in {"memory", "server", "network"}
    /\ ev.url = calls[ev.id].result /\ ev.url # NullLoc
    /\ has(cache, calls[ev.id].key)
    /\ cache[calls[ev.id].key].url = ev.url

\* a cache() call has just resolved from the network with its blob URL in
\* the table, after another resolved from the durable store with its file
\* path in the table
C29_Witness ==
  /\ ev.type = "return" /\ ev.id \in CacheCalls
  /\ calls[ev.id].path = "network"
  /\ cache[calls[ev.id].key].url = ev.url /\ ev.url.kind = "blob"
  /\ \E d \in CacheCalls :
       /\ calls[d].path = "server" /\ calls[d].pc = "done"
       /\ cache[calls[d].key].url = calls[d].result
       /\ calls[d].result = FilePath(calls[d].key)

\* C30: an error signal that carries key k rejects the pending request
\* registered for k, with an error that carries the signal's message, and
\* removes the registration; when none is registered for k it changes
\* neither the registry nor the Memory Table; registrations and calls of
\* other keys are never touched.
C30_ErrorSettlesOwnKey ==
  [][ OnUploadError =>
        LET k == Head(toClient).key IN
        /\ IF k \in DOMAIN pendingRequests
             THEN LET c == pendingRequests[k] IN
                  /\ calls'[c].pc = "failed" /\ calls'[c].out = "error"
                  /\ calls'[c].rejected = Head(toClient).error
                  /\ ev'.type = "reject" /\ ev'.id = c
                  /\ pendingRequests' = Remove(pendingRequests, k)
                  /\ \A d \in 1..Len(calls) : d # c => calls'[d] = calls[d]
             ELSE pendingRequests' = pendingRequests /\ calls' = calls
        /\ \A j \in DOMAIN pendingRequests :
             j # k => EntryOf(pendingRequests', j) = EntryOf(pendingRequests, j)
        /\ cache' = cache
    ]_vars

\* an error signal has just rejected the lookup registered for its key
\* with its message, while the lookup registered for another key waits on
C30_Witness ==
  /\ ev.type = "reject" /\ calls[ev.id].out = "error"
  /\ calls[ev.id].rejected = "File too large"
  /\ calls[ev.id].key \notin DOMAIN pendingRequests
  /\ \E j \in DOMAIN pendingRequests :
       j # calls[ev.id].key /\ calls[pendingRequests[j]].pc = "lookup"

\* the step writes the row of key k
Writes(k) ==
  \/ \E url \in ResultUrls, m \in Metas : cacheResultCall(k, url, m)
  \/ \E m \in Metas : cacheArrayBuffer(k, m)
  \/ (OnUploadSuccess \/ OnFileExists) /\ Head(toClient).key = k

\* C23: cacheResult(k, url, metadata) overwrites unconditionally: after it
\* get(k) is exactly {url, metadata} (metadata undefined when omitted)
\* whatever row k held, the rows of other keys are as before, and get(k) is
\* null for every key that has never been written.
C23_CacheResultOverwrites ==
  /\ [](sent.lookup + sent.upload + stores = 0 =>
          \A k \in AllKeys : get(cache, k) = <<>>)
  /\ [][ /\ \A k \in AllKeys, url \in ResultUrls, m \in Metas :
              cacheResultCall(k, url, m) =>
                /\ get(cache', k) = << [url |-> url, metadata |-> ClientMeta(m)] >>
                /\ \A j \in AllKeys : j # k => get(cache', j) = get(cache, j)
         /\ \A k \in AllKeys :
              (get(cache, k) = <<>> /\ get(cache', k) # <<>>) => Writes(k)
       ]_vars

\* cacheResult without metadata has just replaced the row that
\* cacheArrayBuffer and the upload-success handler had written for the key,
\* and the other key, never written, has no row
C23_Witness ==
  /\ ev.type = "set" /\ ev.meta = ClientMeta("undefined")
  /\ get(cache, ev.key) = << [url |-> ev.url, metadata |-> ev.meta] >>
  /\ \E u \in 1..Len(uploads) : uploads[u].key = ev.key /\ uploads[u].stage = "sent"
  /\ ev.key \in DOMAIN files /\ toClient = <<>>
  /\ \E j \in AllKeys : get(cache, j) = <<>>

\* the cache() calls that created the entry of key k from the network with
\* MIME override M
Creators(k, M) ==
  { p \in CacheCalls : /\ calls[p].key = k /\ calls[p].pc = "done"
                       /\ calls[p].path = "network" /\ calls[p].mime = M }

\* the step is a cache() call without a MIME override, for key k
PlainCall(k) ==
  \E i \in Inputs, m \in CallMetas :
    /\ cacheUrl(i, <<>>, <<>>, m, "undefined")
    /\ calls'[Len(calls')].key = k

\* every network retrieval made for key k so far was made by a call with
\* MIME override M
RetrievedOnlyWith(k, M) ==
  \A d \in CacheCalls :
    (calls[d].key = k /\ calls[d].nFetch > 0) => calls[d].mime = M

\* C24: after a cache() call with MIME override M created the entry of a
\* key, a later cache() call for the key without an override changes
\* nothing: it returns the row's location at once, writes no row, sends no
\* signal and starts no upload; so when no call without the override ran
\* concurrently with the creating call, the metadata stored for the key
\* (the uploads, the plugin's metadata file, the row) holds M and never the
\* default or the declared content type of a later call.
C24_OverrideOfCreatingCallKept ==
  /\ [](\A k \in InputKeys :
          \A p \in Creators(k, "audio/mpeg") :
            RetrievedOnlyWith(k, "audio/mpeg") =>
              /\ calls[p].mimeType = "audio/mpeg"
              /\ \A u \in 1..Len(uploads) :
                   uploads[u].key = k => uploads[u].mime = "audio/mpeg"
              /\ has(files, k) => files[k].mime \in {"audio/mpeg", EarlierMime}
              /\ cache[k].metadata.mime \in {"none", "audio/mpeg", EarlierMime})
  /\ [][ \A k \in InputKeys :
           (PlainCall(k) /\ Creators(k, "audio/mpeg") # {}) =>
             /\ calls'[Len(calls')].hit /\ calls'[Len(calls')].pc = "done"
             /\ calls'[Len(calls')].path = "memory"
             /\ calls'[Len(calls')].nFetch = 0
             /\ calls'[Len(calls')].nLookup = 0
             /\ ev'.type = "return" /\ ev'.url = cache[k].url
             /\ cache' = cache /\ files' = files /\ uploads' = uploads
             /\ sent' = sent /\ toClient' = toClient
             /\ pendingRequests' = pendingRequests /\ nextBlob' = nextBlob
       ]_vars

\* a call with the override created the entry although the response declared
\* another content type, its upload was stored by the plugin and answered,
\* and a later call without an override has returned from the table
C24_Witness ==
  \E k \in InputKeys :
    \E p \in Creators(k, "audio/mpeg"), d \in CacheCalls :
      /\ d > p /\ calls[d].key = k /\ calls[d].mime = "undefined"
      /\ calls[d].hit /\ calls[d].pc = "done"
      /\ has(files, k) /\ files[k].mime = "audio/mpeg"
      /\ cache[k].metadata.mime = "audio/mpeg"
      /\ sent.upload = 1 /\ toClient = <<>>

\* C27: cache() and cached() select the same key for a URL object and for
\* its string form: once cache(u) with a URL object u has resolved, cached(u)
\* and cached(u.toString()) both return the location of the row of the
\* call's key, and the network request was issued with the string form.
C27_UrlObjectSameKey ==
  \A c \in CacheCalls :
    (calls[c].input.kind = "URL" /\ calls[c].pc = "done") =>
      /\ calls[c].key = generateCacheKey(toString(calls[c].input), <<>>)
      /\ has(cache, calls[c].key)
      /\ cachedValue(calls[c].input, <<>>, <<>>) = cache[calls[c].key].url
      /\ cachedValue(StringInput(toString(calls[c].input)), <<>>, <<>>)
           = cache[calls[c].key].url
      /\ calls[c].url = toString(calls[c].input)

\* cache(u) with a URL object has resolved from the network, and cached()
\* of its string form returns the blob URL the call returned
C27_Witness ==
  \E c \in CacheCalls :
    /\ calls[c].input = UrlInput(<<97>>) /\ calls[c].pc = "done"
    /\ calls[c].path = "network" /\ calls[c].nFetch = 1
    /\ calls[c].url = <<97>>
    /\ cachedValue(StringInput(<<97>>), <<>>, <<>>) = calls[c].result
    /\ cachedValue(calls[c].input, <<>>, <<>>) = calls[c].result

\* the number of signals sent so far
Signals(n) == n.avail + n.lookup + n.upload

\* the answers the plugin queued in this step: one per signal sent in it
NewReplies ==
  { toClient'[i] :
      i \in (Len(toClient') - (Signals(sent') - Signals(sent)) + 1)
              ..Len(toClient') }

\* the step leaves the running cache instance as it is
InstanceUntouched ==
  UNCHANGED << instance, avail, probeTimer, probeWaiters, cache,
               pendingRequests, calls, timerQueue, uploads, toClient, sent,
               nextBlob, stores >>

SentUploads == { u \in 1..Len(uploads) : uploads[u].stage = "sent" }

\* the step starts an upload task
StartsUpload == Len(uploads') = Len(uploads) + 1

C32_FoundSignalPopulates ==
  [][ /\ (OnUploadSuccess \/ OnFileExists) =>
           LET d == Head(toClient) IN
           (d.key # <<>> /\ d.url # NullLoc) =>
             /\ has(cache', d.key)
             /\ cache'[d.key] = [url |-> d.url, metadata |-> d.meta]
             /\ \A j \in DOMAIN cache :
                  j # d.key => EntryOf(cache', j) = EntryOf(cache, j)
      /\ (OnFileNotFound /\ Head(toClient).key \notin DOMAIN pendingRequests) =>
           /\ cache' = cache /\ calls' = calls
           /\ pendingRequests' = pendingRequests
           /\ uploads' = uploads /\ files' = files /\ sent' = sent
           /\ timerQueue' = timerQueue /\ avail' = avail
    ]_vars

\* the only call's lookup timed out and went on to the network, no upload
\* was sent, and the found signal that arrived afterwards has put the file
\* path and the plugin's metadata in the row
C32_Witness ==
  /\ Len(calls) = 1 /\ calls[1].op = "cache"
  /\ calls[1].nLookup = 1 /\ calls[1].out = "null" /\ calls[1].pc = "fetch"
  /\ sent.upload = 0 /\ stores = 0 /\ toClient = <<>>
  /\ pendingRequests = EmptyMap
  /\ RowIs(calls[1].key, FilePath(calls[1].key),
           ServerMeta("undefined", EarlierMime))

\* the rolling hash of the key derivation as a formula: hash * 31 + code
\* unit, truncated to 32 bits (on the halves of the two's complement)
TimesThirtyOnePlus(h, char) ==
  LET lo == h[2] * 31 + char
  IN  << (h[1] * 31 + (lo \div Half)) % Half, lo % Half >>

RECURSIVE RollingHash(_, _)
RollingHash(h, str) ==
  IF Len(str) = 0 THEN h
  ELSE RollingHash(TimesThirtyOnePlus(h, Head(str)), Tail(str))

\* the prefixes of a string
Prefixes(str) == { SubSeq(str, 1, n) : n \in 0..Len(str) }

\* C33: for every string generateCacheKey hashes, and every prefix of it,
\* the hash simpleHash computes with (hash << 5) - hash + code unit reduced
\* to 32 bits equals the rolling hash hash * 31 + code unit truncated to 32
\* bits, and the key returned is the absolute value of that hash written
\* with 8 lowercase hexadecimal digits, zeros in front.
C33_HashIsTimesThirtyOne ==
  \A j \in Derived :
    /\ \A str \in Prefixes(Concatenation(j)) :
         HashLoop(<<0, 0>>, str) = RollingHash(<<0, 0>>, str)
    /\ LET a == Abs32(RollingHash(<<0, 0>>, Concatenation(j)))
       IN  keyCalls.keys[j] = HexDigits4(a[1]) \o HexDigits4(a[2])

\* keys were returned for a string whose hash is negative after the 32-bit
\* reduction cut high bits off (-1, key 00000001) and for the one-letter
\* identifier "a" with the tag "x" (hash (97 * 31 + 45) * 31 + 120 = 94732,
\* key 0001720c)
C33_Witness ==
  /\ Len(keyCalls.keys) = 2
  /\ RollingHash(<<0, 0>>, Concatenation(1)) = <<Half - 1, Half - 1>>
  /\ keyCalls.keys[1] = <<48, 48, 48, 48, 48, 48, 48, 49>>
  /\ keyCalls.args[2] = [content |-> <<97>>, opts |-> << <<120>> >>]
  /\ keyCalls.keys[2] = <<48, 48, 48, 49, 55, 50, 48, 99>>

\* a MIME type was given: neither absent nor the empty string
Given(x) == x \notin {"undefined", "null", ""}

\* the first of override, own type and fallback that was given
FirstGiven(override, own) ==
  IF Given(override) THEN override
  ELSE IF Given(own) THEN own
  ELSE DefaultMime

\* C34: the content type of a retrieved asset, which its upload task holds
\* and its upload signal carries, is the override when one was given,
\* otherwise the response's declared content type when present, otherwise
\* application/octet-stream; for cacheBlob it is the override, otherwise
\* the blob's own type, otherwise application/octet-stream (an override,
\* header or blob type that is the empty string counts as not given).
C34_ContentTypePriority ==
  [][ /\ \A c \in 1..Len(calls), ct \in HeaderValues :
           FetchResponse(c, 200, ct) =>
             /\ calls'[c].mimeType = FirstGiven(calls[c].mime, ct)
             /\ Len(uploads') = Len(uploads) + 1
             /\ uploads'[Len(uploads')].key = calls[c].key
             /\ uploads'[Len(uploads')].mime = FirstGiven(calls[c].mime, ct)
      /\ \A k \in StoreKeys, m \in CallMetas, mime \in MimeValues,
            type \in TypedBlobs :
           cacheBlob(k, m, mime, type) =>
             /\ Len(uploads') = Len(uploads) + 1
             /\ uploads'[Len(uploads')].key = k
             /\ uploads'[Len(uploads')].mime = FirstGiven(mime, type)
      /\ \A u \in 1..Len(uploads) :
           /\ uploads'[u].mime = uploads[u].mime
           /\ UploadSend(u, TRUE) =>
                /\ toClient'[Len(toClient')].key = uploads[u].key
                /\ toClient'[Len(toClient')].meta.mime = uploads[u].mime
                /\ files'[uploads[u].key].mime = uploads[u].mime
    ]_vars

\* the plugin has stored the content retrieved by a call whose override was
\* the empty string under the declared type of the response, and the
\* content of a typed blob stored with an override under the override
C34_Witness ==
  /\ \E c \in CacheCalls :
       /\ calls[c].mime = "" /\ calls[c].mimeType = "text/plain"
       /\ has(files, calls[c].key)
       /\ files[calls[c].key].mime = "text/plain"
  /\ \E u \in SentUploads :
       /\ uploads[u].key \in StoreKeys /\ uploads[u].mime = "audio/mpeg"
       /\ has(files, uploads[u].key)
       /\ files[uploads[u].key].mime = "audio/mpeg"
  /\ stores = 1

\* the answers the plugin has sent to signal h
RepliesTo(h) ==
  { i \in 1..Len(plugin.replies) : plugin.replies[i].to = h }

\* the step sends an answer
PluginAnswers == Len(plugin'.replies) = Len(plugin.replies) + 1

\* the metadata file of key k is in the directory, its text parses, and the
\* content file it names is in the directory
BothExist(dir, k) ==
  /\ MetadataName(k) \in DOMAIN dir
  /\ dir[MetadataName(k)].from # 0
  /\ NamedFile(dir[MetadataName(k)].json, k) \in DOMAIN dir

\* what the check-file handler r read is what the directory holds
ReadIsCurrent(dir, r) ==
  IF MetadataName(r.key) \in DOMAIN dir
    THEN r.read = dir[MetadataName(r.key)]
    ELSE r.read.kind \in {"none", "gone"}

\* C35: the plugin answers a lookup signal once, with found or not-found
\* and the signal's key; the answer is found, with the location of the
\* content file the metadata names and the metadata, exactly when the
\* metadata file of the key exists, parses, and the content file it names
\* exists; a metadata file that is missing, unlinked before it was read, or
\* read while it was being written is answered not-found.
C35_LookupAnsweredFoundIffBoth ==
  /\ [](\A h \in 1..Len(plugin.handlers) :
          plugin.handlers[h].type = "lookup" =>
            /\ Cardinality(RepliesTo(h)) =
                 IF plugin.handlers[h].stage = "done" THEN 1 ELSE 0
            /\ \A i \in RepliesTo(h) :
                 /\ plugin.replies[i].key = plugin.handlers[h].key
                 /\ plugin.replies[i].type \in
                      {"cache:file-exists", "cache:file-not-found"})
  /\ [][ PluginAnswers =>
           LET d == plugin'.replies[Len(plugin'.replies)]
               r == plugin'.handlers[d.to]
               dir == plugin.dir
               json == r.read.json
           IN  r.type = "lookup" =>
                 /\ plugin'.dir = dir
                 /\ d.type = "cache:file-exists" =>
                      /\ r.read.kind = "meta" /\ r.read.from # 0
                      /\ NamedFile(json, r.key) \in DOMAIN dir
                      /\ d.url = Location(NamedFile(json, r.key))
                      /\ d.meta = json
                 /\ ReadIsCurrent(dir, r) =>
                      (d.type = "cache:file-exists" <=> BothExist(dir, r.key))
                 /\ r.read.kind = "gone" \/ r.read.from = 0 =>
                      d.type = "cache:file-not-found"
       ]_vars

\* a lookup was answered found with the location of the .mp3 file that the
\* metadata written by the upload before it names
C35_Witness ==
  \E i \in 1..Len(plugin.replies) :
    /\ plugin.replies[i].type = "cache:file-exists"
    /\ plugin.replies[i].url.name =
         FileName(plugin.replies[i].key, "mp3")
    /\ plugin.replies[i].meta["fileName"] = plugin.replies[i].url.name
    /\ plugin.handlers[plugin.replies[i].to].type = "lookup"

\* C36: the plugin answers an upload signal once, with upload-ok or
\* upload-error and the signal's key; an upload whose decoded content is
\* larger than maxFileSize megabytes is answered upload-error in the step
\* that receives it, which leaves the directory as it is, and no file ever
\* holds its data; an upload of at most maxFileSize megabytes is not
\* refused for its size.
C36_UploadAnsweredOnce ==
  /\ [](\A h \in 1..Len(plugin.handlers) :
          plugin.handlers[h].type = "upload" =>
            /\ Cardinality(RepliesTo(h)) =
                 IF plugin.handlers[h].stage = "done" THEN 1 ELSE 0
            /\ \A i \in RepliesTo(h) :
                 /\ plugin.replies[i].key = plugin.handlers[h].key
                 /\ plugin.replies[i].type \in
                      {"cache:upload-success", "cache:upload-error"}
            /\ plugin.handlers[h].size > plugin.maxFileSize * MB =>
                 /\ plugin.handlers[h].stage = "done"
                 /\ \A i \in RepliesTo(h) :
                      plugin.replies[i].type = "cache:upload-error"
                 /\ \A name \in DOMAIN plugin.dir :
                      plugin.dir[name].from # h)
  /\ [][ \A k \in AllKeys, mime \in PluginMimes, metadata \in UserMetadata,
            size \in UploadSizes(plugin.maxFileSize) :
           PluginOnUploadFile(k, mime, metadata, size) =>
             IF size > plugin.maxFileSize * MB
               THEN /\ plugin'.dir = plugin.dir
                    /\ PluginAnswers
                    /\ plugin'.replies[Len(plugin'.replies)].key = k
                    /\ plugin'.replies[Len(plugin'.replies)].type =
                         "cache:upload-error"
               ELSE /\ plugin'.replies = plugin.replies
                    /\ plugin'.handlers[Len(plugin'.handlers)].stage = "content"
       ]_vars

\* with the default maxFileSize, an upload of 50 MB was stored and answered
\* upload-ok, and a later upload of 50 MB + 1 byte for the same key was
\* answered upload-error with both files of the key still those of the first
C36_Witness ==
  /\ plugin.maxFileSize = 50 /\ Len(plugin.handlers) = 2
  /\ plugin.handlers[1].size = 50 * MB /\ plugin.handlers[2].size = 50 * MB + 1
  /\ plugin.handlers[1].key = plugin.handlers[2].key
  /\ plugin.handlers[1].fileName = plugin.handlers[2].fileName
  /\ \E i \in RepliesTo(1) : plugin.replies[i].type = "cache:upload-success"
  /\ \E i \in RepliesTo(2) : plugin.replies[i].type = "cache:upload-error"
  /\ plugin.handlers[1].fileName \in DOMAIN plugin.dir
  /\ plugin.dir[plugin.handlers[1].fileName].from = 1
  /\ MetadataName(plugin.handlers[1].key) \in DOMAIN plugin.dir
  /\ plugin.dir[MetadataName(plugin.handlers[1].key)].from = 1

\* the upload of signal u is the only upload of its key, and no cleanup was
\* requested
OnlyUploadOfKey(u) ==
  /\ plugin.resets = 0
  /\ \A h \in 1..Len(plugin.handlers) :
       (h # u /\ plugin.handlers[h].type = "upload") =>
         plugin.handlers[h].key # plugin.handlers[u].key

\* the answers to the lookups of key k that arrived when answer i was sent
LaterLookupReplies(i, k) ==
  { j \in 1..Len(plugin.replies) :
      LET r == plugin.handlers[plugin.replies[j].to] IN
      r.type = "lookup" /\ r.key = k /\ r.after >= i }

\* C37: after the plugin has answered upload-ok for key k with location L,
\* with no cleanup and no other upload of k, every lookup of k that arrives
\* later is answered found with location L, for every MIME type and every
\* metadata object of the upload.
C37_DurableRoundTrip ==
  \A i \in 1..Len(plugin.replies) :
    (/\ plugin.replies[i].type = "cache:upload-success"
     /\ OnlyUploadOfKey(plugin.replies[i].to)) =>
      \A j \in LaterLookupReplies(i, plugin.replies[i].key) :
        /\ plugin.replies[j].type = "cache:file-exists"
        /\ plugin.replies[j].url = plugin.replies[i].url

\* the handlers of two upload signals for one key ran concurrently (each
\* arrived before the other was answered), and both were answered upload-ok
ConcurrentUploads(a, b) ==
  /\ a # b
  /\ plugin.handlers[a].type = "upload" /\ plugin.handlers[b].type = "upload"
  /\ plugin.handlers[a].key = plugin.handlers[b].key
  /\ \A i \in RepliesTo(a) \cup RepliesTo(b) :
       /\ plugin.replies[i].type = "cache:upload-success"
       /\ plugin.handlers[a].after < i /\ plugin.handlers[b].after < i
  /\ RepliesTo(a) # {} /\ RepliesTo(b) # {}

\* C38: once two concurrent uploads of one key have both been answered (and
\* no cleanup ran), the metadata file of the key parses, names a content
\* file that is in the directory, gives its size and MIME type, and was
\* written by the upload that wrote that content file.
C38_OneWriterWins ==
  \A a \in 1..Len(plugin.handlers), b \in 1..Len(plugin.handlers) :
    (ConcurrentUploads(a, b) /\ plugin.resets = 0) =>
      LET k == plugin.handlers[a].key
          m == plugin.dir[MetadataName(k)]
          name == NamedFile(m.json, k)
      IN  /\ m.from \in {a, b}
          /\ name \in DOMAIN plugin.dir
          /\ plugin.dir[name].from = m.from
          /\ plugin.dir[name].size = m.json["fileSize"]
          /\ name.ext = getExtensionFromMimeType(m.json["mimeType"])

====
